---- MODULE Spec2Model ----
(***************************************************************************)
(* A model of the finance dashboard's CSV ingestion core                   *)
(* (src/lib/csv-parser.ts, second listing, lines 740-1559) and of the      *)
(* upload "combine" step (src/unnamed/part_001, FileUpload.handleFiles).   *)
(*                                                                         *)
(* Text is modelled character by character: a string of the program is a   *)
(* TLA+ string, read with Len and SubSeq.  Amounts are integers counted in *)
(* cents.  A Date is the number of days since 1970-01-01 (every Date the   *)
(* program builds is a local midnight; the model assumes a time zone       *)
(* without daylight-saving shifts, so getTime() is dayNumber * 86400000).  *)
(***************************************************************************)
EXTENDS Integers, Sequences, FiniteSets, TLC

VARIABLES
    txs,      \* the transaction list held by the caller (Transaction[])
    prev,     \* the list the last operation was applied to
    runs,     \* how many times the operation was applied (capped)
    files,    \* per-file parseCSV results selected for one upload
    csv,      \* the text handed to parseCSV
    dateIn,  \* the three notations of one calendar date handed to parseDate
    dateOut,  \* what parseDate returned for each of them
    vendorMappings,  \* the vendor-category mappings handed to parseCSV
    minVariants,  \* the threshold handed to autoMergeVendors
    mergedGroups, \* the merged groups autoMergeVendors last returned
    lineIn,   \* the line handed to parseCSVLine
    lineOut,  \* the fields parseCSVLine returned for it
    dateFilter,  \* Dashboard's dateFilter: <<>> (null) or a range
    stored,   \* the transactions held by data/transactions.json
    pending,  \* the save requests sent and not yet handled by the server
    edit,     \* the last handler that called setTransactions
    argument  \* the array handed to detectSubscriptions, after the call

\* the variables of the dashboard page and of parseCSVLine
pageVars ==
    <<lineIn, lineOut, dateFilter, stored, pending, edit, argument>>

\* the variables of the parser, its callers and the vendor merger
parserVars ==
    <<files, csv, dateIn, dateOut, vendorMappings, minVariants, mergedGroups>>

vars ==
    <<txs, prev, runs, files, csv, dateIn, dateOut, vendorMappings,
      minVariants, mergedGroups, lineIn, lineOut, dateFilter, stored, pending,
      edit, argument>>

\* no line parsed, no page opened: nothing filtered, stored or sent
PageIdle ==
    /\ lineIn = ""
    /\ lineOut = <<>>
    /\ dateFilter = <<>>
    /\ stored = <<>>
    /\ pending = {}
    /\ edit = <<>>
    /\ argument = <<>>

\* nothing uploaded, parsed or merged
ParserIdle ==
    /\ files = <<>>
    /\ csv = ""
    /\ dateIn = <<>>
    /\ dateOut = <<>>
    /\ vendorMappings = <<>>
    /\ minVariants = 2
    /\ mergedGroups = {}

-----------------------------------------------------------------------------
(* Characters and strings *)

Ch(s, i) == SubSeq(s, i, i)

Min2(a, b) == IF a <= b THEN a ELSE b
Max2(a, b) == IF a >= b THEN a ELSE b
Abs(a) == IF a < 0 THEN -a ELSE a

DigitStr == "0123456789"
LowerStr == "abcdefghijklmnopqrstuvwxyz"
UpperStr == "ABCDEFGHIJKLMNOPQRSTUVWXYZ"

CharsOf(s) == {Ch(s, i) : i \in 1..Len(s)}

Digit == CharsOf(DigitStr)
Lower == CharsOf(LowerStr)
Upper == CharsOf(UpperStr)
Alpha == Lower \cup Upper
WordChar == Alpha \cup Digit \cup {"_"}
SpaceChar == {" ", "\t", "\n", "\r"}

IndexIn(str, c) == CHOOSE i \in 1..Len(str) : Ch(str, i) = c

DigitVal(c) == IndexIn(DigitStr, c) - 1

ToLowerCh(c) == IF c \in Upper THEN Ch(LowerStr, IndexIn(UpperStr, c)) ELSE c
ToUpperCh(c) == IF c \in Lower THEN Ch(UpperStr, IndexIn(LowerStr, c)) ELSE c

\* the characters lo..hi of s, each mapped to lower case (halving keeps the
\* evaluation shallow)
RECURSIVE MapLower(_, _, _)
MapLower(s, lo, hi) ==
    IF lo > hi THEN ""
    ELSE IF lo = hi THEN ToLowerCh(Ch(s, lo))
    ELSE LET mid == (lo + hi) \div 2
         IN  MapLower(s, lo, mid) \o MapLower(s, mid + 1, hi)

\* String.prototype.toLowerCase
ToLowerCase(s) == MapLower(s, 1, Len(s))

RECURSIVE MapUpper(_, _, _)
MapUpper(s, lo, hi) ==
    IF lo > hi THEN ""
    ELSE IF lo = hi THEN ToUpperCh(Ch(s, lo))
    ELSE LET mid == (lo + hi) \div 2
         IN  MapUpper(s, lo, mid) \o MapUpper(s, mid + 1, hi)

\* String.prototype.toUpperCase
ToUpperCase(s) == MapUpper(s, 1, Len(s))

SetMin(S) == CHOOSE x \in S : \A y \in S : x <= y
SetMax(S) == CHOOSE x \in S : \A y \in S : x >= y

\* String.prototype.trim
Trim(s) ==
    LET keep == {i \in 1..Len(s) : Ch(s, i) \notin SpaceChar}
    IN  IF keep = {} THEN "" ELSE SubSeq(s, SetMin(keep), SetMax(keep))

\* s.startsWith(p) at position i (1-based)
StartsWithAt(s, p, i) ==
    /\ i + Len(p) - 1 <= Len(s)
    /\ SubSeq(s, i, i + Len(p) - 1) = p

\* String.prototype.includes
Includes(s, p) == \E i \in 1..(Len(s) + 1) : StartsWithAt(s, p, i)

\* parseInt on a run of decimal digits
RECURSIVE ParseDigits(_, _)
ParseDigits(s, acc) ==
    IF Len(s) = 0 THEN acc
    ELSE ParseDigits(SubSeq(s, 2, Len(s)), 10 * acc + DigitVal(Ch(s, 1)))

ParseInt(s) == ParseDigits(s, 0)

\* the length of the longest run of characters of class cls starting at i
RunLen(s, i, cls) ==
    LET stops == {j \in i..Len(s) : Ch(s, j) \notin cls}
    IN  IF stops = {} THEN Max2(Len(s) - i + 1, 0) ELSE SetMin(stops) - i

-----------------------------------------------------------------------------
(* Calendar: what the JavaScript Date constructor and getters compute *)

\* days since 1970-01-01 of the proleptic Gregorian date y-m-d (m in 1..12)
DaysFromCivil(y, m, d) ==
    LET yy  == IF m <= 2 THEN y - 1 ELSE y
        era == yy \div 400
        yoe == yy - era * 400
        mp  == IF m > 2 THEN m - 3 ELSE m + 9
        doy == (153 * mp + 2) \div 5 + d - 1
        doe == yoe * 365 + yoe \div 4 - yoe \div 100 + doy
    IN  era * 146097 + doe - 719468

\* the inverse: [y, m, d] of a day number
CivilFromDays(z0) ==
    LET z   == z0 + 719468
        era == z \div 146097
        doe == z - era * 146097
        yoe == (doe - doe \div 1460 + doe \div 36524 - doe \div 146096) \div 365
        doy == doe - (365 * yoe + yoe \div 4 - yoe \div 100)
        mp  == (5 * doy + 2) \div 153
        d   == doy - (153 * mp + 2) \div 5 + 1
        m   == IF mp < 10 THEN mp + 3 ELSE mp - 9
        y   == yoe + era * 400 + (IF m <= 2 THEN 1 ELSE 0)
    IN  [y |-> y, m |-> m, d |-> d]

\* new Date(year, monthIndex, day): years 0..99 mean 1900..1999, a month
\* index outside 0..11 carries into the year and a day outside the month
\* carries into the neighbouring months; the result is never an invalid Date
NewDate(year, monthIndex, day) ==
    LET y0 == IF year >= 0 /\ year <= 99 THEN 1900 + year ELSE year
        y  == y0 + monthIndex \div 12
        m  == monthIndex % 12
    IN  DaysFromCivil(y, m + 1, 1) + day - 1

GetFullYear(date) == CivilFromDays(date).y
GetMonth(date)    == CivilFromDays(date).m - 1
GetDate(date)     == CivilFromDays(date).d

-----------------------------------------------------------------------------
(* Regular expressions, as the JavaScript engine matches them.             *)
(* A pattern is a tree; Ends(re, s, i) is the list of positions where a    *)
(* match of re that starts at position i of s can end, in the engine's     *)
(* backtracking order (greedy repetition first, alternatives left to       *)
(* right), so its head is the match the engine reports.                    *)

Inf == 1000000

Cls(set)         == [t |-> "cls", set |-> set]
\* a character class under the i flag
ClsI(set)        == [t |-> "cls",
                     set |-> set \cup {ToLowerCh(c) : c \in set}
                                 \cup {ToUpperCh(c) : c \in set}]
Cat(rs)          == [t |-> "cat", rs |-> rs]
Alt(rs)          == [t |-> "alt", rs |-> rs]
Rep(r, min, max) == [t |-> "rep", r |-> r, min |-> min, max |-> max]
Bol              == [t |-> "bol"]
Eol              == [t |-> "eol"]
WordB            == [t |-> "wb"]

Star(r) == Rep(r, 0, Inf)
Plus(r) == Rep(r, 1, Inf)
Opt(r)  == Rep(r, 0, 1)

\* a literal word, and the same under the i flag
Lit(str)  == [t |-> "lit", str |-> str, ci |-> FALSE]
LitI(str) == [t |-> "lit", str |-> str, ci |-> TRUE]

\* (w1|w2|...) of literal words under the i flag
AltLitI(strs) == Alt([k \in 1..Len(strs) |-> LitI(strs[k])])

IsWordAt(s, i) == i >= 1 /\ i <= Len(s) /\ Ch(s, i) \in WordChar

RECURSIVE Ends(_, _, _), EndsAll(_, _, _), CatEnds(_, _, _, _),
          AltEnds(_, _, _, _), RepEnds(_, _, _, _), RepAll(_, _, _, _)

Ends(re, s, i) ==
    CASE re.t = "cls" ->
            IF i <= Len(s) /\ Ch(s, i) \in re.set THEN <<i + 1>> ELSE <<>>
      [] re.t = "lit" ->
            LET n    == Len(re.str)
                here == SubSeq(s, i, Min2(i + n - 1, Len(s)))
            IN  IF here = re.str
                   \/ (re.ci /\ ToLowerCase(here) = ToLowerCase(re.str))
                THEN <<i + n>> ELSE <<>>
      [] re.t = "bol" -> IF i = 1 THEN <<i>> ELSE <<>>
      [] re.t = "eol" -> IF i = Len(s) + 1 THEN <<i>> ELSE <<>>
      [] re.t = "wb"  ->
            IF IsWordAt(s, i - 1) # IsWordAt(s, i) THEN <<i>> ELSE <<>>
      [] re.t = "cat" -> CatEnds(re.rs, 1, s, <<i>>)
      [] re.t = "alt" -> AltEnds(re.rs, 1, s, i)
      [] re.t = "rep" ->
            IF re.r.t = "cls"
            THEN \* a repeated character class: the run of such characters
                 \* from i, longest admissible length first
                 LET hi == Min2(RunLen(s, i, re.r.set), re.max)
                 IN  IF hi < re.min THEN <<>>
                     ELSE [k \in 1..(hi - re.min + 1) |-> i + hi - k + 1]
            ELSE RepEnds(re, 0, s, i)

\* the ends of re from each start of a list, in order
EndsAll(re, s, starts) ==
    IF starts = <<>> THEN <<>>
    ELSE Ends(re, s, Head(starts)) \o EndsAll(re, s, Tail(starts))

CatEnds(rs, k, s, starts) ==
    IF starts = <<>> \/ k > Len(rs) THEN starts
    ELSE CatEnds(rs, k + 1, s, EndsAll(rs[k], s, starts))

AltEnds(rs, k, s, i) ==
    IF k > Len(rs) THEN <<>>
    ELSE Ends(rs[k], s, i) \o AltEnds(rs, k + 1, s, i)

\* greedy repetition: one more iteration is tried before stopping; an
\* iteration that consumes nothing is not repeated
RepEnds(re, n, s, i) ==
    (IF n < re.max
     THEN RepAll(re, n + 1, s,
                 SelectSeq(Ends(re.r, s, i), LAMBDA e : e > i))
     ELSE <<>>)
    \o (IF n >= re.min THEN <<i>> ELSE <<>>)

RepAll(re, n, s, starts) ==
    IF starts = <<>> THEN <<>>
    ELSE RepEnds(re, n, s, Head(starts)) \o RepAll(re, n, s, Tail(starts))

\* the leftmost match, given the ends of the pattern from each start tried
FirstMatch(ends) ==
    LET starts == {p \in DOMAIN ends : ends[p] # <<>>}
    IN  IF starts = {} THEN [found |-> FALSE, from |-> 0, to |-> 0]
        ELSE [found |-> TRUE, from |-> SetMin(starts),
              to |-> Head(ends[SetMin(starts)])]

\* the leftmost match at or after position from: [from, to) or no match
FindMatch(re, s, from) ==
    FirstMatch([p \in from..(Len(s) + 1) |-> Ends(re, s, p)])

\* regex.test(s) / s.match(regex) is not null
Matches(re, s) == FindMatch(re, s, 1).found

\* s without the match m, when there is one
RemoveMatch(s, m) ==
    IF m.found
    THEN SubSeq(s, 1, m.from - 1) \o SubSeq(s, m.to, Len(s))
    ELSE s

\* s.replace(/re/, "")
ReplaceFirst(re, s) == RemoveMatch(s, FindMatch(re, s, 1))

\* s.replace(/re/g, with): s from pos on, m being the next match
RECURSIVE ReplaceFrom(_, _, _, _), ReplaceAt(_, _, _, _, _)
ReplaceAt(re, s, pos, with, m) ==
    IF ~m.found THEN SubSeq(s, pos, Len(s))
    ELSE IF m.to > m.from
         THEN SubSeq(s, pos, m.from - 1) \o with
              \o ReplaceFrom(re, s, m.to, with)
         ELSE SubSeq(s, pos, m.from) \o with
              \o ReplaceFrom(re, s, m.from + 1, with)

ReplaceFrom(re, s, pos, with) ==
    ReplaceAt(re, s, pos, with, FindMatch(re, s, pos))

ReplaceAll(re, s, with) == ReplaceFrom(re, s, 1, with)

\* s.split(/re/) for a pattern that never matches the empty string
RECURSIVE SplitFrom(_, _, _), SplitAt(_, _, _, _)
SplitAt(re, s, pos, m) ==
    IF ~m.found \/ m.to = m.from THEN <<SubSeq(s, pos, Len(s))>>
    ELSE <<SubSeq(s, pos, m.from - 1)>> \o SplitFrom(re, s, m.to)

SplitFrom(re, s, pos) == SplitAt(re, s, pos, FindMatch(re, s, pos))

Split(re, s) == SplitFrom(re, s, 1)

\* parts.join(sep)
RECURSIVE Join(_, _)
Join(parts, sep) ==
    IF parts = <<>> THEN ""
    ELSE IF Len(parts) = 1 THEN parts[1]
    ELSE parts[1] \o sep \o Join(Tail(parts), sep)

-----------------------------------------------------------------------------
(* Numbers as text *)

RECURSIVE NatToStr(_)
NatToStr(n) ==
    IF n < 10 THEN Ch(DigitStr, n + 1)
    ELSE NatToStr(n \div 10) \o Ch(DigitStr, (n % 10) + 1)

\* String(n) of an integer
IntToStr(n) == IF n < 0 THEN "-" \o NatToStr(-n) ELSE NatToStr(n)

\* String(amount) of a non-negative amount counted in cents: 1250 is "12.5"
AmountToStr(c) ==
    LET whole == NatToStr(c \div 100)
        frac  == c % 100
    IN  IF frac = 0 THEN whole
        ELSE IF frac % 10 = 0 THEN whole \o "." \o NatToStr(frac \div 10)
        ELSE whole \o "." \o NatToStr(frac \div 10) \o NatToStr(frac % 10)

\* String(date.getTime()): the day number times 86400000 milliseconds,
\* written without forming the product
TimeToStr(date) == IF date = 0 THEN "0" ELSE IntToStr(date * 864) \o "00000"

-----------------------------------------------------------------------------
(* RecurringDetector *)

S1 == Cls(SpaceChar)
CapsWord == Rep(Cls(Upper), 4, Inf)
CapsWords == Cat(<<CapsWord, Star(Cat(<<Plus(S1), CapsWord>>))>>)

\* /\s{2,}([A-Z]{4,}(\s+[A-Z]{4,})*)\s*$/g
ReLocationWide == Cat(<<Rep(S1, 2, Inf), CapsWords, Star(S1), Eol>>)

\* /\s+(SAN FRANCISCO|COVINA|SINGAPORE|VANCOUVER|MONTREAL|TORONTO|NEW YORK|LOS ANGELES)\s*$/i
ReLocationKnown ==
    Cat(<<Plus(S1),
          AltLitI(<<"SAN FRANCISCO", "COVINA", "SINGAPORE", "VANCOUVER",
                    "MONTREAL", "TORONTO", "NEW YORK", "LOS ANGELES">>),
          Star(S1), Eol>>)

\* /\s+([A-Z]{4,}(\s+[A-Z]{4,})*)\s*$/g
ReLocationCaps == Cat(<<Plus(S1), CapsWords, Star(S1), Eol>>)

\* /\s+/g
ReSpaces == Plus(S1)

\* /^(purchase|debit|payment|transfer|ach|autopay|automatic|card)\s+/i
RePrefix ==
    Cat(<<Bol,
          AltLitI(<<"purchase", "debit", "payment", "transfer", "ach",
                    "autopay", "automatic", "card">>),
          Plus(S1)>>)

\* /\s+(purchase|debit|payment|transfer)$/i
ReSuffix ==
    Cat(<<Plus(S1), AltLitI(<<"purchase", "debit", "payment", "transfer">>),
          Eol>>)

\* /\b\d{10,}\b/g
ReLongNumber == Cat(<<WordB, Rep(Cls(Digit), 10, Inf), WordB>>)

\* /\b[a-z]*[0-9]+[a-z0-9]*\b/gi
ReCode1 ==
    Cat(<<WordB, Star(ClsI(Lower)), Plus(Cls(Digit)),
          Star(ClsI(Lower \cup Digit)), WordB>>)

\* /\b[a-z]{1,2}[0-9]{4,}[a-z0-9]*\b/gi
ReCode2 ==
    Cat(<<WordB, Rep(ClsI(Lower), 1, 2), Rep(Cls(Digit), 4, Inf),
          Star(ClsI(Lower \cup Digit)), WordB>>)

\* /\b[0-9]+[a-z]{4,}\b/gi
ReCode3 == Cat(<<WordB, Plus(Cls(Digit)), Rep(ClsI(Lower), 4, Inf), WordB>>)

\* /\*\d{4}/g
ReCardSuffix == Cat(<<Lit("*"), Rep(Cls(Digit), 4, 4)>>)

\* /\*[a-z]+/gi
ReStarWord == Cat(<<Lit("*"), Plus(ClsI(Lower))>>)

\* /\s+(online|authorized|pending|completed|processed)$/i
ReStatus ==
    Cat(<<Plus(S1),
          AltLitI(<<"online", "authorized", "pending", "completed",
                    "processed">>),
          Eol>>)

\* /\s+(subscr|subscription)$/i
ReSubscr == Cat(<<Plus(S1), AltLitI(<<"subscr", "subscription">>), Eol>>)

\* /_/g
ReUnderscore == Lit("_")

\* the replace of the generic location suffix, with its callback: the match
\* is dropped when its captured location is all upper case and 4 or longer
RemoveIfCaps(s, m, location) ==
    IF m.found /\ location = ToUpperCase(location) /\ Len(location) >= 4
    THEN RemoveMatch(s, m)
    ELSE s

RemoveLocation(s, m) == RemoveIfCaps(s, m, Trim(SubSeq(s, m.from, m.to - 1)))

StripLocationCaps(s) == RemoveLocation(s, FindMatch(ReLocationCaps, s, 1))

\* one step of normalizeKey's cleaning of the description, in source order
CleanStep(k, s) ==
    CASE k = 1  -> Trim(ReplaceAll(ReLocationWide, s, ""))
      [] k = 2  -> Trim(ReplaceFirst(ReLocationKnown, s))
      [] k = 3  -> Trim(StripLocationCaps(s))
      [] k = 4  -> Trim(ReplaceAll(ReSpaces, ToLowerCase(s), " "))
      [] k = 5  -> ReplaceFirst(RePrefix, s)
      [] k = 6  -> ReplaceFirst(ReSuffix, s)
      [] k = 7  -> ReplaceAll(ReLongNumber, s, "")
      [] k = 8  -> ReplaceAll(ReCode1, s, "")
      [] k = 9  -> ReplaceAll(ReCode2, s, "")
      [] k = 10 -> ReplaceAll(ReCode3, s, "")
      [] k = 11 -> ReplaceAll(ReCardSuffix, s, "")
      [] k = 12 -> ReplaceAll(ReStarWord, s, "")
      [] k = 13 -> ReplaceFirst(ReStatus, s)
      [] k = 14 -> ReplaceFirst(ReSubscr, s)
      [] k = 15 -> ReplaceAll(ReUnderscore, s, " ")
      [] k = 16 -> Trim(ReplaceAll(ReSpaces, s, " "))

\* the number of cleaning steps normalizeKey applies
CleanSteps == 16

\* the description after each step so far; done[1] is the raw description
RECURSIVE CleanFrom(_)
CleanFrom(done) ==
    IF Len(done) > CleanSteps THEN done[Len(done)]
    ELSE CleanFrom(Append(done, CleanStep(Len(done), done[Len(done)])))

\* the description half of normalizeKey: the cleaned description's first
\* four words longer than two characters
FirstWords(words, n) == Join(SubSeq(words, 1, Min2(n, Len(words))), " ")

KeyWords(description) ==
    FirstWords(SelectSeq(Split(ReSpaces, CleanFrom(<<description>>)),
                         LAMBDA w : Len(w) > 2), 4)

\* Math.round(amount / 2) * 2, in whole currency units, of an amount in cents
RoundedAmount(amount) == ((amount + 100) \div 200) * 2

\* the descriptions the model's transactions carry
Descriptions ==
    {"Netflix.com", "NETFLIX.COM    VANCOUVER", "SUPABASE", "Tom Sushi"}

\* KeyWords, tabulated once for the model's descriptions
KeyWordsOf == [d \in Descriptions |-> KeyWords(d)]

normalizeKey(transaction) ==
    KeyWordsOf[transaction.description] \o "|"
        \o IntToStr(RoundedAmount(transaction.amount))

\* `${date.getTime()}-${amount}-${description}`
TransactionKey(t) ==
    TimeToStr(t.date) \o "-" \o AmountToStr(t.amount) \o "-" \o t.description

\* groupTransactions.sort((a, b) => a.date - b.date): stable, ascending
RECURSIVE InsertByDate(_, _)
InsertByDate(sorted, t) ==
    IF sorted = <<>> THEN <<t>>
    ELSE IF sorted[Len(sorted)].date <= t.date THEN Append(sorted, t)
    ELSE Append(InsertByDate(SubSeq(sorted, 1, Len(sorted) - 1), t),
                sorted[Len(sorted)])

RECURSIVE SortByDate(_)
SortByDate(seq) ==
    IF seq = <<>> THEN <<>>
    ELSE InsertByDate(SortByDate(SubSeq(seq, 1, Len(seq) - 1)), seq[Len(seq)])

\* the test of one day against the most common day
DayWithinRange(day, mostCommonDay) ==
    \/ Abs(day - mostCommonDay) <= 1
    \/ (mostCommonDay >= 29 /\ day <= 2)
    \/ (day >= 29 /\ mostCommonDay <= 2)

\* the second half of isSameDayOfMonth with the last of the days seen most
\* often as the most common day
AllNearLastCommonDay(daysOfMonth) ==
    LET Count(day)  == Cardinality({i \in 1..Len(daysOfMonth) :
                                        daysOfMonth[i] = day})
        maxCount    == SetMax({Count(daysOfMonth[i]) :
                                        i \in 1..Len(daysOfMonth)})
        last        == SetMax({i \in 1..Len(daysOfMonth) :
                                        Count(daysOfMonth[i]) = maxCount})
        mostCommonDay == daysOfMonth[last]
    IN  \A i \in 1..Len(daysOfMonth) :
            DayWithinRange(daysOfMonth[i], mostCommonDay)

\* the second half of isSameDayOfMonth, on the list of days of the month
AllNearMostCommonDay(daysOfMonth) ==
    LET Count(day)  == Cardinality({i \in 1..Len(daysOfMonth) :
                                        daysOfMonth[i] = day})
        maxCount    == SetMax({Count(daysOfMonth[i]) :
                                        i \in 1..Len(daysOfMonth)})
        \* dayCounts is walked in insertion order and a count has to exceed
        \* the best so far: the first day seen with the highest count wins
        first       == SetMin({i \in 1..Len(daysOfMonth) :
                                        Count(daysOfMonth[i]) = maxCount})
        mostCommonDay == daysOfMonth[first]
    IN  \A i \in 1..Len(daysOfMonth) :
            DayWithinRange(daysOfMonth[i], mostCommonDay)

isSameDayOfMonth(transactions) ==
    /\ Len(transactions) >= 2
    /\ AllNearMostCommonDay([i \in 1..Len(transactions) |->
                                GetDate(transactions[i].date)])

SumAmounts(g) ==
    LET RECURSIVE Sum(_)
        Sum(k) == IF k = 0 THEN 0 ELSE g[k].amount + Sum(k - 1)
    IN  Sum(Len(g))

\* variance > maxVariance, for variance = (max - min) / avg and maxVariance
\* 0.2 for two transactions, 0.1 otherwise, decided in whole cents
VarianceTooHigh(g) ==
    LET amounts   == {g[i].amount : i \in 1..Len(g)}
        minAmount == SetMin(amounts)
        maxAmount == SetMax(amounts)
        perUnit   == IF Len(g) = 2 THEN 5 ELSE 10
    IN  (maxAmount - minAmount) * Len(g) * perUnit > SumAmounts(g)

\* the body of the loop over the groups without its day-of-the-month test
SortedGroupIsRecurringAnyDay(groupTransactions) ==
    LET n        == Len(groupTransactions)
        daysDiff == Abs(groupTransactions[2].date - groupTransactions[1].date)
        isMonthly == daysDiff >= 20 /\ daysDiff <= 40
        isAnnual  == daysDiff >= 350 /\ daysDiff <= 380
    IN  /\ n >= 2
        /\ \E i \in 1..n : groupTransactions[i].date # groupTransactions[1].date
        /\ (n = 2 => /\ ~(daysDiff < 20)
                     /\ (isMonthly \/ isAnnual))
        /\ ~(VarianceTooHigh(groupTransactions) /\ n < 3)

\* the body of the loop over the groups without the monthly and annual bands
\* of its two-transaction test
SortedGroupIsRecurringAnyInterval(groupTransactions) ==
    LET n        == Len(groupTransactions)
        daysDiff == Abs(groupTransactions[2].date - groupTransactions[1].date)
    IN  /\ n >= 2
        /\ \E i \in 1..n : groupTransactions[i].date # groupTransactions[1].date
        /\ (n = 2 => ~(daysDiff < 20))
        /\ ~(VarianceTooHigh(groupTransactions) /\ n < 3)
        /\ isSameDayOfMonth(groupTransactions)

\* the body of the loop over the groups with the variance test applied to
\* groups of every size
SortedGroupIsRecurringVarianceAnySize(groupTransactions) ==
    LET n        == Len(groupTransactions)
        daysDiff == Abs(groupTransactions[2].date - groupTransactions[1].date)
        isMonthly == daysDiff >= 20 /\ daysDiff <= 40
        isAnnual  == daysDiff >= 350 /\ daysDiff <= 380
    IN  /\ n >= 2
        /\ \E i \in 1..n : groupTransactions[i].date # groupTransactions[1].date
        /\ (n = 2 => /\ ~(daysDiff < 20)
                     /\ (isMonthly \/ isAnnual))
        /\ ~VarianceTooHigh(groupTransactions)
        /\ isSameDayOfMonth(groupTransactions)

\* the body of the loop over the groups without its test for a group that
\* falls on one calendar date
SortedGroupIsRecurringSameDate(groupTransactions) ==
    LET n        == Len(groupTransactions)
        daysDiff == Abs(groupTransactions[2].date - groupTransactions[1].date)
        isMonthly == daysDiff >= 20 /\ daysDiff <= 40
        isAnnual  == daysDiff >= 350 /\ daysDiff <= 380
    IN  /\ n >= 2
        /\ (n = 2 => /\ ~(daysDiff < 20)
                     /\ (isMonthly \/ isAnnual))
        /\ ~(VarianceTooHigh(groupTransactions) /\ n < 3)
        /\ isSameDayOfMonth(groupTransactions)

\* the body of the loop over the groups: TRUE when the group's transactions
\* are marked as subscriptions
SortedGroupIsRecurring(groupTransactions) ==
    LET n        == Len(groupTransactions)
        daysDiff == Abs(groupTransactions[2].date - groupTransactions[1].date)
        isMonthly == daysDiff >= 20 /\ daysDiff <= 40
        isAnnual  == daysDiff >= 350 /\ daysDiff <= 380
    IN  /\ n >= 2
        /\ \E i \in 1..n : groupTransactions[i].date # groupTransactions[1].date
        /\ (n = 2 => /\ ~(daysDiff < 20)
                     /\ (isMonthly \/ isAnnual))
        /\ ~(VarianceTooHigh(groupTransactions) /\ n < 3)
        /\ isSameDayOfMonth(groupTransactions)

GroupIsRecurring(group) == SortedGroupIsRecurring(SortByDate(group))

\* the keys one group adds to subscriptionKeys
GroupKeys(group) ==
    IF GroupIsRecurring(group)
    THEN {TransactionKey(group[i]) : i \in 1..Len(group)}
    ELSE {}

\* the loop over the groups, keyOf[i] being the grouping key of debits[i]
KeysOfGroups(debits, keyOf) ==
    UNION {GroupKeys(SelectSeq(debits, LAMBDA t : keyOf[t] = key)) :
               key \in {keyOf[debits[i]] : i \in 1..Len(debits)}}

DebitKeys(debits) ==
    KeysOfGroups(debits, [t \in {debits[i] : i \in 1..Len(debits)} |->
                              normalizeKey(t)])

detectRecurringPayments(transactions) ==
    DebitKeys(SelectSeq(transactions, LAMBDA t : t.type = "debit"))

\* detectSubscriptions without the debit test on the flag it writes
detectSubscriptionsAnyType(transactions) ==
    LET debitsOnly == SelectSeq(transactions, LAMBDA t : t.type = "debit")
        subscriptionKeys == detectRecurringPayments(debitsOnly)
    IN  [i \in 1..Len(transactions) |->
            [transactions[i] EXCEPT !.isSubscription =
                TransactionKey(transactions[i]) \in subscriptionKeys]]

\* detectSubscriptions looking only at transactions not flagged yet
detectSubscriptionsSkipFlagged(transactions) ==
    LET debitsOnly == SelectSeq(transactions,
                         LAMBDA t : t.type = "debit" /\ ~t.isSubscription)
        subscriptionKeys == detectRecurringPayments(debitsOnly)
    IN  [i \in 1..Len(transactions) |->
            [transactions[i] EXCEPT !.isSubscription =
                /\ transactions[i].type = "debit"
                /\ TransactionKey(transactions[i]) \in subscriptionKeys]]

\* detectSubscriptions sorting the list by date before it writes the flags
detectSubscriptionsByDate(transactions) ==
    LET sorted == SortByDate(transactions)
        debitsOnly == SelectSeq(sorted, LAMBDA t : t.type = "debit")
        parsedTransactions ==
            [i \in 1..Len(debitsOnly) |->
                [date |-> debitsOnly[i].date, amount |-> debitsOnly[i].amount,
                 description |-> debitsOnly[i].description,
                 type |-> debitsOnly[i].type]]
        subscriptionKeys == detectRecurringPayments(parsedTransactions)
    IN  [i \in 1..Len(sorted) |->
            [sorted[i] EXCEPT !.isSubscription =
                /\ sorted[i].type = "debit"
                /\ TransactionKey(sorted[i]) \in subscriptionKeys]]

detectSubscriptions(transactions) ==
    LET debitsOnly == SelectSeq(transactions, LAMBDA t : t.type = "debit")
        parsedTransactions ==
            [i \in 1..Len(debitsOnly) |->
                [date |-> debitsOnly[i].date, amount |-> debitsOnly[i].amount,
                 description |-> debitsOnly[i].description,
                 type |-> debitsOnly[i].type]]
        subscriptionKeys == detectRecurringPayments(parsedTransactions)
    IN  [i \in 1..Len(transactions) |->
            [transactions[i] EXCEPT !.isSubscription =
                /\ transactions[i].type = "debit"
                /\ TransactionKey(transactions[i]) \in subscriptionKeys]]

-----------------------------------------------------------------------------
(* Transaction lists *)

Date(y, m, d) == DaysFromCivil(y, m, d)

\* a list of transaction fields, numbered 1, 2, ... as their ids
WithIds(fields) ==
    [i \in 1..Len(fields) |->
        [id |-> i, date |-> fields[i].date,
         description |-> fields[i].description, amount |-> fields[i].amount,
         type |-> fields[i].type, isSubscription |-> fields[i].isSubscription]]

\* the lists of at most n elements of U
ListsUpTo(U, n) == UNION {[1..k -> U] : k \in 0..n}

Flags(list) == [i \in 1..Len(list) |-> list[i].isSubscription]

SameTriple(a, b) ==
    a.date = b.date /\ a.amount = b.amount /\ a.description = b.description

-----------------------------------------------------------------------------
(* detectSubscriptions applied, repeatedly, to an arbitrary list *)

MaxTx == 3
MaxRuns == 2

DetectDates == {Date(2025, 1, 15), Date(2025, 2, 15)}

\* two spellings of one merchant, charged amounts that round to the same
\* grouping amount
DetectCharges ==
    {[description |-> "Netflix.com", amount |-> 1000],
     [description |-> "NETFLIX.COM    VANCOUVER", amount |-> 1099]}

DetectUniverse ==
    {[date |-> d, description |-> c.description, amount |-> c.amount,
      type |-> ty, isSubscription |-> f] :
        d \in DetectDates, c \in DetectCharges,
        ty \in {"debit", "credit"}, f \in BOOLEAN}

InitDetect ==
    /\ txs \in {WithIds(l) : l \in ListsUpTo(DetectUniverse, MaxTx)}
    /\ prev = <<>>
    /\ runs = 0
    /\ files = <<>>
    /\ csv = ""
    /\ dateIn = <<>>
    /\ dateOut = <<>>
    /\ vendorMappings = <<>>
    /\ minVariants = 2
    /\ mergedGroups = {}
    /\ PageIdle

Detect ==
    /\ runs < MaxRuns
    /\ txs' = detectSubscriptions(txs)
    /\ prev' = txs
    /\ runs' = runs + 1
    /\ UNCHANGED <<files, csv, dateIn, dateOut, vendorMappings,
                 minVariants, mergedGroups, pageVars>>

NextDetect == Detect

SpecDetect == InitDetect /\ [][NextDetect]_vars

\* C1: after detectSubscriptions has run, every credit has isSubscription =
\* FALSE, whatever group its description and amount fall into and whatever
\* its flag was on input
CreditsNeverFlagged ==
    runs >= 1 =>
        \A i \in 1..Len(txs) : txs[i].type = "credit" => ~txs[i].isSubscription

\* a credit that came in flagged and shares its date, amount and description
\* with a debit the detector flagged
CreditBesideFlaggedDebit ==
    /\ runs = 1
    /\ \E i, j \in 1..Len(txs) :
        /\ txs[i].type = "credit" /\ prev[i].isSubscription
        /\ txs[j].type = "debit" /\ txs[j].isSubscription
        /\ SameTriple(txs[i], txs[j])

\* C2: detectSubscriptions is idempotent: a second run gives every
\* transaction the flag the first run gave it
DetectIdempotent ==
    runs >= 2 => Flags(txs) = Flags(prev)

\* the second run happened on a list where the first run had flagged a debit
\* and left a credit unflagged
SecondRunOnFlaggedList ==
    /\ runs = 2
    /\ \E i, j \in 1..Len(txs) :
        /\ prev[i].type = "debit" /\ prev[i].isSubscription
        /\ prev[j].type = "credit" /\ ~prev[j].isSubscription

-----------------------------------------------------------------------------
(* FileUpload.handleFiles: the combine step over the parsed files *)

MaxFiles == 2
MaxPerFile == 2
MaxUploads == 2

\* allTransactions.push(...transactions), file after file
RECURSIVE Concat(_)
Concat(lists) ==
    IF lists = <<>> THEN <<>> ELSE Head(lists) \o Concat(Tail(lists))

\* arr.findIndex(x => same date, amount and description as t), 1-based
FindIndex(arr, t) == SetMin({k \in 1..Len(arr) : SameTriple(arr[k], t)})

\* the filter keeping the record at the first index holding its triple and
\* its type
UniquePerType(allTransactions) ==
    LET Keep(i) ==
            SetMin({k \in 1..Len(allTransactions) :
                      /\ SameTriple(allTransactions[k], allTransactions[i])
                      /\ allTransactions[k].type = allTransactions[i].type}) = i
        RECURSIVE Filter(_)
        Filter(i) ==
            IF i = 0 THEN <<>>
            ELSE IF Keep(i) THEN Append(Filter(i - 1), allTransactions[i])
            ELSE Filter(i - 1)
    IN  Filter(Len(allTransactions))

\* allTransactions.filter((t, i, arr) => arr.findIndex(...) === i)
Unique(allTransactions) ==
    LET RECURSIVE Filter(_)
        Filter(i) ==
            IF i = 0 THEN <<>>
            ELSE IF FindIndex(allTransactions, allTransactions[i]) = i
                 THEN Append(Filter(i - 1), allTransactions[i])
            ELSE Filter(i - 1)
    IN  Filter(Len(allTransactions))

\* what handleFiles hands to onDataParsed for the files in the given order
handleFiles(fileList) == detectSubscriptions(Unique(Concat(fileList)))

\* the orders n files can arrive in
Orders(n) == {p \in [1..n -> 1..n] : \A a, b \in 1..n : p[a] = p[b] => a = b}

\* one merchant charging one amount: a triple is fixed by its date
CombineUniverse ==
    {[date |-> d, description |-> "Netflix.com", amount |-> 1000,
      type |-> ty, isSubscription |-> FALSE] :
        d \in DetectDates, ty \in {"debit", "credit"}}

\* what parseCSV can return for one file: newest first, nothing flagged
ParsedFiles ==
    {WithIds(l) : l \in {m \in ListsUpTo(CombineUniverse, MaxPerFile) :
        \A i \in 1..(Len(m) - 1) : m[i].date >= m[i + 1].date}}

InitCombine ==
    /\ files \in UNION {[1..n -> ParsedFiles] : n \in 1..MaxFiles}
    /\ txs = <<>>
    /\ prev = <<>>
    /\ runs = 0
    /\ csv = ""
    /\ dateIn = <<>>
    /\ dateOut = <<>>
    /\ vendorMappings = <<>>
    /\ minVariants = 2
    /\ mergedGroups = {}
    /\ PageIdle

\* the same files are dropped on the page again, in any order
HandleFiles(order) ==
    /\ runs < MaxUploads
    /\ txs' = handleFiles([k \in 1..Len(files) |-> files[order[k]]])
    /\ prev' = txs
    /\ runs' = runs + 1
    /\ UNCHANGED <<files, csv, dateIn, dateOut, vendorMappings,
                 minVariants, mergedGroups, pageVars>>

NextCombine == \E order \in Orders(Len(files)) : HandleFiles(order)

SpecCombine == InitCombine /\ [][NextCombine]_vars

\* C3: the combine step does not depend on the order the files arrive in:
\* two uploads of the same files give every surviving (date, amount,
\* description) triple the same isSubscription flag
CombineOrderIndependent ==
    runs >= 2 =>
        \A i \in 1..Len(txs), j \in 1..Len(prev) :
            SameTriple(txs[i], prev[j]) =>
                txs[i].isSubscription = prev[j].isSubscription

\* C4: after the combine step no two transactions of the combined set share
\* their (date, amount, description) triple, and every triple of the files
\* survives in it
OneSurvivorPerTriple ==
    runs >= 1 =>
        /\ \A i, j \in 1..Len(txs) : SameTriple(txs[i], txs[j]) => i = j
        /\ \A f \in 1..Len(files) : \A k \in 1..Len(files[f]) :
              \E i \in 1..Len(txs) : SameTriple(txs[i], files[f][k])

\* an upload of two files that hold the same triple, as a debit in one and as
\* a credit in the other
SameTripleInTwoFiles ==
    /\ runs >= 1
    /\ \E f, g \in 1..Len(files) : \E i \in 1..Len(files[f]) :
          \E j \in 1..Len(files[g]) :
            /\ f # g
            /\ SameTriple(files[f][i], files[g][j])
            /\ files[f][i].type = "debit" /\ files[g][j].type = "credit"

-----------------------------------------------------------------------------
(* The interval and day-of-month gates, around 19 and 20 days *)

MaxBoundaryTx == 4

\* one merchant and two prices that fall into different groups: the cheaper
\* one charged on 2025-01-15 and 19, 20 and 31 days later, the dearer one on
\* 2025-02-03 and 28 days later
BoundaryCharges ==
    {[date |-> Date(2025, 1, 15), amount |-> 1000],
     [date |-> Date(2025, 2, 3), amount |-> 1000],
     [date |-> Date(2025, 2, 4), amount |-> 1000],
     [date |-> Date(2025, 2, 15), amount |-> 1000],
     [date |-> Date(2025, 2, 3), amount |-> 5000],
     [date |-> Date(2025, 3, 3), amount |-> 5000]}

BoundaryUniverse ==
    {[date |-> c.date, description |-> "Netflix.com", amount |-> c.amount,
      type |-> "debit", isSubscription |-> FALSE] : c \in BoundaryCharges}

InitBoundary ==
    /\ txs \in {WithIds(l) : l \in ListsUpTo(BoundaryUniverse, MaxBoundaryTx)}
    /\ prev = <<>>
    /\ runs = 0
    /\ files = <<>>
    /\ csv = ""
    /\ dateIn = <<>>
    /\ dateOut = <<>>
    /\ vendorMappings = <<>>
    /\ minVariants = 2
    /\ mergedGroups = {}
    /\ PageIdle

NextBoundary == Detect

SpecBoundary == InitBoundary /\ [][NextBoundary]_vars

SameMerchant(a, b) ==
    KeyWordsOf[a.description] = KeyWordsOf[b.description]

DaysApart(a, b) == Abs(a.date - b.date)

\* days of the month within one of each other, across a month end or not
DaysOfMonthWithinOne(a, b) ==
    DayWithinRange(GetDate(a.date), GetDate(b.date))

\* amounts within 20% of their average
SimilarAmounts(a, b) == ~VarianceTooHigh(<<a, b>>)

-----------------------------------------------------------------------------
(* Three charges of 35.00, 36.50 and 37.00 in three consecutive months *)

RoundingAmounts == <<3500, 3650, 3700>>

\* the charges of January, February and March 2025, on the given days and
\* with the amounts in the given order
RoundingCharges(days, amountOf) ==
    [m \in 1..3 |->
        [date |-> Date(2025, m, days[m]), description |-> "SUPABASE",
         amount |-> RoundingAmounts[amountOf[m]], type |-> "debit",
         isSubscription |-> FALSE]]

InitRounding ==
    /\ \E days \in [1..3 -> {14, 15}], amountOf \in Orders(3),
          listed \in Orders(3) :
            txs = WithIds([k \in 1..3 |->
                              RoundingCharges(days, amountOf)[listed[k]]])
    /\ prev = <<>>
    /\ runs = 0
    /\ files = <<>>
    /\ csv = ""
    /\ dateIn = <<>>
    /\ dateOut = <<>>
    /\ vendorMappings = <<>>
    /\ minVariants = 2
    /\ mergedGroups = {}
    /\ PageIdle

NextRounding == Detect

SpecRounding == InitRounding /\ [][NextRounding]_vars

\* C9: the three charges are all flagged by detectSubscriptions
RoundingChargesAllFlagged ==
    runs >= 1 => \A i \in 1..Len(txs) : txs[i].isSubscription

-----------------------------------------------------------------------------
(* csv-parser.ts: parseCSVLine, parseFloat and parseDate *)

\* line[i], or "" past the end of the line
CharAt(s, i) == IF i >= 1 /\ i <= Len(s) THEN Ch(s, i) ELSE ""

\* one turn of the loop of parseCSVLine where a doubled quote also ends the
\* quoted span
LineStepEscapeCloses(line, st) ==
    LET char     == CharAt(line, st.i)
        nextChar == CharAt(line, st.i + 1)
    IN  IF char = "\""
        THEN IF st.inQuotes /\ nextChar = "\""
             THEN [st EXCEPT !.currentField = @ \o "\"", !.i = @ + 2,
                             !.inQuotes = FALSE]
             ELSE [st EXCEPT !.inQuotes = ~@, !.i = @ + 1]
        ELSE IF char = "," /\ ~st.inQuotes
             THEN [st EXCEPT !.fields = Append(@, st.currentField),
                             !.currentField = "", !.i = @ + 1]
        ELSE [st EXCEPT !.currentField = @ \o char, !.i = @ + 1]

\* one turn of the loop of parseCSVLine; st.i is the 1-based loop index
LineStep(line, st) ==
    LET char     == CharAt(line, st.i)
        nextChar == CharAt(line, st.i + 1)
    IN  IF char = "\""
        THEN IF st.inQuotes /\ nextChar = "\""
             THEN [st EXCEPT !.currentField = @ \o "\"", !.i = @ + 2]
             ELSE [st EXCEPT !.inQuotes = ~@, !.i = @ + 1]
        ELSE IF char = "," /\ ~st.inQuotes
             THEN [st EXCEPT !.fields = Append(@, st.currentField),
                             !.currentField = "", !.i = @ + 1]
        ELSE [st EXCEPT !.currentField = @ \o char, !.i = @ + 1]

RECURSIVE LineLoop(_, _)
LineLoop(line, st) ==
    IF st.i > Len(line) THEN Append(st.fields, st.currentField)
    ELSE LineLoop(line, LineStep(line, st))

parseCSVLine(line) ==
    LineLoop(line, [fields |-> <<>>, currentField |-> "",
                    inQuotes |-> FALSE, i |-> 1])

\* fields[index] || dflt, for a 0-based index that may be -1 or too large
FieldOr(fields, index, dflt) ==
    IF index >= 0 /\ index < Len(fields) /\ fields[index + 1] # ""
    THEN fields[index + 1] ELSE dflt

\* seq.findIndex(P): 0-based, -1 when no element satisfies P
FindIndexWhere(seq, P(_)) ==
    LET hits == {k \in 1..Len(seq) : P(seq[k])}
    IN  IF hits = {} THEN -1 ELSE SetMin(hits) - 1

\* parseFloat of a decimal without exponent: leading white space, a sign,
\* digits, a point and digits. The value is kept in cents (the texts of the
\* model carry at most two decimals); nan when there is no digit to read
parseFloat(str) ==
    LET t       == Trim(str)
        signLen == IF CharAt(t, 1) \in {"-", "+"} THEN 1 ELSE 0
        intLen  == RunLen(t, signLen + 1, Digit)
        dotAt   == signLen + intLen + 1
        fracLen == IF CharAt(t, dotAt) = "." THEN RunLen(t, dotAt + 1, Digit)
                   ELSE 0
        whole   == ParseInt(SubSeq(t, signLen + 1, signLen + intLen))
        tenths  == IF fracLen >= 1 THEN DigitVal(Ch(t, dotAt + 1)) ELSE 0
        hundredths == IF fracLen >= 2 THEN DigitVal(Ch(t, dotAt + 2)) ELSE 0
        cents   == 100 * whole + 10 * tenths + hundredths
    IN  [nan   |-> intLen = 0 /\ fracLen = 0,
         value |-> IF CharAt(t, 1) = "-" THEN -cents ELSE cents]

\* isNaN(amount) || amount === 0
NaNOrZero(amount) == amount.nan \/ amount.value = 0

\* the first way, in the engine's order, to match the parts of a pattern one
\* after the other from position i: the end of each part, then the end of
\* the match once more; <<>> when there is none
RECURSIVE PathFrom(_, _, _, _), FirstPath(_, _, _, _), TryPath(_, _, _, _, _)
PathFrom(parts, k, s, i) ==
    IF k > Len(parts) THEN <<i>>
    ELSE FirstPath(parts, k, s, Ends(parts[k], s, i))

FirstPath(parts, k, s, ends) ==
    IF ends = <<>> THEN <<>>
    ELSE TryPath(parts, k, s, ends, PathFrom(parts, k + 1, s, Head(ends)))

TryPath(parts, k, s, ends, path) ==
    IF path # <<>> THEN <<Head(ends)>> \o path
    ELSE FirstPath(parts, k, s, Tail(ends))

\* the text the k-th part matched
PartText(s, path, k) ==
    SubSeq(s, IF k = 1 THEN 1 ELSE path[k - 1], path[k] - 1)

D(min, max) == Rep(Cls(Digit), min, max)

\* /^(\d{4})-(\d{1,2})-(\d{1,2})/, /^(\d{1,2})\/(\d{1,2})\/(\d{2,4})/,
\* /^(\d{1,2})\/(\d{1,2})\/(\d{4})/ and
\* /^(\d{1,2})\s+(\w{3,4}\.?)\s+(\d{4})/i, each as its parts; the groups are
\* the parts 1, 3 and 5
DatePatterns ==
    <<  <<D(4, 4), Lit("-"), D(1, 2), Lit("-"), D(1, 2)>>,
        <<D(1, 2), Lit("/"), D(1, 2), Lit("/"), D(2, 4)>>,
        <<D(1, 2), Lit("/"), D(1, 2), Lit("/"), D(4, 4)>>,
        <<D(1, 2), Plus(S1),
          Cat(<<Rep(Cls(WordChar), 3, 4), Opt(Lit("."))>>),
          Plus(S1), D(4, 4)>>  >>

\* monthNames with the months counted from 1
monthNamesFromOne ==
    [name \in {"jan", "jan."} |-> 1] @@ [name \in {"feb", "feb."} |-> 2]
    @@ [name \in {"mar", "mar."} |-> 3] @@ [name \in {"apr", "apr."} |-> 4]
    @@ [name \in {"may", "may."} |-> 5] @@ [name \in {"jun", "jun."} |-> 6]
    @@ [name \in {"jul", "jul."} |-> 7] @@ [name \in {"aug", "aug."} |-> 8]
    @@ [name \in {"sep", "sep.", "sept", "sept."} |-> 9]
    @@ [name \in {"oct", "oct."} |-> 10] @@ [name \in {"nov", "nov."} |-> 11]
    @@ [name \in {"dec", "dec."} |-> 12]

monthNames ==
    [name \in {"jan", "jan."} |-> 0] @@ [name \in {"feb", "feb."} |-> 1]
    @@ [name \in {"mar", "mar."} |-> 2] @@ [name \in {"apr", "apr."} |-> 3]
    @@ [name \in {"may", "may."} |-> 4] @@ [name \in {"jun", "jun."} |-> 5]
    @@ [name \in {"jul", "jul."} |-> 6] @@ [name \in {"aug", "aug."} |-> 7]
    @@ [name \in {"sep", "sep.", "sept", "sept."} |-> 8]
    @@ [name \in {"oct", "oct."} |-> 9] @@ [name \in {"nov", "nov."} |-> 10]
    @@ [name \in {"dec", "dec."} |-> 11]

\* the body of parseDate after the trim, m[k] being the match of the k-th
\* pattern. A Date is its day number in a list of one; null is the empty
\* list. new Date(...) never gives an invalid Date here, so every
\* !isNaN(date.getTime()) holds
DateOfMatches(trimmed, m) ==
    LET isoMatch   == m[1]
        slashMatch == m[2]
        ddmmMatch  == m[3]
        monthMatch == m[4]
        slashYear  == ParseInt(PartText(trimmed, slashMatch, 5))
        monthName  == ToLowerCase(PartText(trimmed, monthMatch, 3))
    IN  IF isoMatch # <<>>
        THEN <<NewDate(ParseInt(PartText(trimmed, isoMatch, 1)),
                       ParseInt(PartText(trimmed, isoMatch, 3)) - 1,
                       ParseInt(PartText(trimmed, isoMatch, 5)))>>
        ELSE IF slashMatch # <<>>
        THEN <<NewDate(IF slashYear < 100 THEN slashYear + 2000
                       ELSE slashYear,
                       ParseInt(PartText(trimmed, slashMatch, 1)) - 1,
                       ParseInt(PartText(trimmed, slashMatch, 3)))>>
        ELSE IF ddmmMatch # <<>>
        THEN <<NewDate(ParseInt(PartText(trimmed, ddmmMatch, 5)),
                       ParseInt(PartText(trimmed, ddmmMatch, 3)) - 1,
                       ParseInt(PartText(trimmed, ddmmMatch, 1)))>>
        ELSE IF monthMatch # <<>> /\ monthName \in DOMAIN monthNames
        THEN <<NewDate(ParseInt(PartText(trimmed, monthMatch, 5)),
                       monthNames[monthName],
                       ParseInt(PartText(trimmed, monthMatch, 1)))>>
        ELSE <<>>

TrimmedDate(trimmed) ==
    IF trimmed = "" THEN <<>>
    ELSE DateOfMatches(trimmed,
            [k \in 1..Len(DatePatterns) |->
                PathFrom(DatePatterns[k], 1, trimmed, 1)])

parseDate(dateStr) == TrimmedDate(Trim(dateStr))

\* /^\d{1,2}\s+\w{3,4}\.?\s+\d{4}$/i
ReSpelledDate == Cat(<<Bol, Cat(DatePatterns[4]), Eol>>)

\* dateCheck && description.match(/^\d{1,2}\s+\w{3,4}\.?\s+\d{4}$/i)
LooksLikeDate(description) ==
    parseDate(description) # <<>> /\ Matches(ReSpelledDate, description)

-----------------------------------------------------------------------------
(* parseDate on the three notations of one calendar date *)

\* n in decimal, with zeros in front up to the width
Pad(n, width) ==
    LET digits == NatToStr(n)
    IN  SubSeq("0000", 1, Max2(width - Len(digits), 0)) \o digits

MonthAbbreviations ==
    <<"Jan", "Feb", "Mar", "Apr", "May", "Jun", "Jul", "Aug", "Sep", "Oct",
      "Nov", "Dec">>

\* YYYY-MM-DD, MM/DD/YYYY and D Mon. YYYY of the date y-m-d, the month and
\* the day written with or without a leading zero, the month abbreviation
\* with or without its point
Notations(y, m, d, padded, point) ==
    LET w == IF padded THEN 2 ELSE 1
    IN  <<Pad(y, 4) \o "-" \o Pad(m, w) \o "-" \o Pad(d, w),
          Pad(m, w) \o "/" \o Pad(d, w) \o "/" \o Pad(y, 4),
          Pad(d, 1) \o " " \o MonthAbbreviations[m]
              \o (IF point THEN "." ELSE "") \o " " \o Pad(y, 4)>>

DateYears == {50, 100, 2024, 2025}
DateDays == {4, 29, 31}

\* the dates of the calendar among the years and days of the model
CalendarDates ==
    {c \in [y : DateYears, m : 1..12, d : DateDays] :
        CivilFromDays(DaysFromCivil(c.y, c.m, c.d)) = c}

InitDate ==
    /\ dateIn \in {[date |-> c, forms |-> Notations(c.y, c.m, c.d, p, q)] :
                      c \in CalendarDates, p \in BOOLEAN, q \in BOOLEAN}
    /\ dateOut = <<>>
    /\ vendorMappings = <<>>
    /\ minVariants = 2
    /\ mergedGroups = {}
    /\ PageIdle
    /\ txs = <<>>
    /\ prev = <<>>
    /\ runs = 0
    /\ files = <<>>
    /\ csv = ""

ParseDates ==
    /\ runs = 0
    /\ dateOut' = [k \in 1..3 |-> parseDate(dateIn.forms[k])]
    /\ runs' = 1
    /\ UNCHANGED <<txs, prev, files, csv, dateIn, vendorMappings,
                 minVariants, mergedGroups, pageVars>>

NextDate == ParseDates

SpecDate == InitDate /\ [][NextDate]_vars

-----------------------------------------------------------------------------
(* csv-parser.ts: the parsers. Each row operator gives the list of the one *)
(* transaction the loop pushes for a line, or the empty list where the     *)
(* loop continues.                                                         *)

ParsedTransaction(date, amount, description, type) ==
    <<[date |-> date[1], amount |-> Abs(amount.value),
       description |-> description, type |-> type]>>

\* /[\$,]/g
ReDollarComma == Cls({"$", ","})

Format1Row(fields) ==
    IF Len(fields) < 8 THEN <<>>
    ELSE
    LET transactionDate == parseDate(fields[3])
        postingDate == parseDate(fields[4])
        date == IF transactionDate # <<>> THEN transactionDate
                ELSE postingDate
        fromDebit  == Trim(fields[7]) # ""
        fromCredit == ~fromDebit /\ Trim(fields[8]) # ""
        amount == IF fromDebit THEN parseFloat(fields[7])
                  ELSE IF fromCredit THEN parseFloat(fields[8])
                  ELSE [nan |-> FALSE, value |-> 0]
        cleanDescription == Trim(fields[5])
    IN  IF date = <<>> THEN <<>>
        ELSE IF NaNOrZero(amount) THEN <<>>
        ELSE IF Len(cleanDescription) < 2 THEN <<>>
        ELSE ParsedTransaction(date, amount, cleanDescription,
                               IF fromCredit THEN "credit" ELSE "debit")

parseFormat1(lines) ==
    Concat([k \in 1..Len(lines) |-> Format1Row(parseCSVLine(lines[k]))])

Format2Row(fields) ==
    IF Len(fields) < 4 THEN <<>>
    ELSE
    LET date    == parseDate(fields[1])
        amount  == parseFloat(fields[4])
        payee   == Trim(fields[2])
        address == Trim(fields[3])
        description == IF address # "" THEN Trim(payee \o " " \o address)
                       ELSE payee
    IN  IF date = <<>> THEN <<>>
        ELSE IF NaNOrZero(amount) THEN <<>>
        ELSE IF Len(description) < 2 THEN <<>>
        ELSE ParsedTransaction(date, amount, description,
                               IF amount.value < 0 THEN "debit" ELSE "credit")

\* the rows up to the first one the loop does not push
RECURSIVE UntilRejected(_)
UntilRejected(rows) ==
    IF rows = <<>> THEN <<>>
    ELSE IF Head(rows) = <<>> THEN <<>>
    ELSE Head(rows) \o UntilRejected(Tail(rows))

\* parseFormat2 with break where the loop has continue
parseFormat2StopAtRejected(lines) ==
    UntilRejected([k \in 1..(Len(lines) - 1) |->
                      Format2Row(parseCSVLine(lines[k + 1]))])

\* the header line is skipped
parseFormat2(lines) ==
    Concat([k \in 1..(Len(lines) - 1) |->
               Format2Row(parseCSVLine(lines[k + 1]))])

\* Format3Push with the signs read as parseFormat2 reads them
Format3PushLedgerSign(date, amount, description) ==
    IF NaNOrZero(amount) THEN <<>>
    ELSE IF Len(description) < 2 THEN <<>>
    ELSE IF LooksLikeDate(description) THEN <<>>
    ELSE ParsedTransaction(date, amount, description,
                           IF amount.value < 0 THEN "debit" ELSE "credit")

\* the end of a row of parseFormat3 and of parseFormat3NoHeader, from the
\* amount test on
Format3Push(date, amount, description) ==
    IF NaNOrZero(amount) THEN <<>>
    ELSE IF Len(description) < 2 THEN <<>>
    ELSE IF LooksLikeDate(description) THEN <<>>
    ELSE ParsedTransaction(date, amount, description,
                           IF amount.value > 0 THEN "debit" ELSE "credit")

\* /^[\-]?\$?[\d,]+\.?\d{0,2}$/
ReAmountField ==
    Cat(<<Bol, Opt(Lit("-")), Opt(Lit("$")), Plus(Cls(Digit \cup {","})),
          Opt(Lit(".")), D(0, 2), Eol>>)

\* the row once the last field that reads as an amount is known (0 when
\* there is none); the description is what lies between date and amount
Format3NoHeaderAmountAt(fields, date, at) ==
    IF at = 0 \/ fields[at] = "" THEN <<>>
    ELSE Format3Push(date,
                     parseFloat(ReplaceAll(ReDollarComma, fields[at], "")),
                     Trim(Join(SubSeq(fields, 2, at - 1), " ")))

Format3NoHeaderRow(fields) ==
    IF Len(fields) < 2 THEN <<>>
    ELSE IF parseDate(fields[1]) = <<>> THEN <<>>
    ELSE Format3NoHeaderAmountAt(fields, parseDate(fields[1]),
            SetMax({0} \cup {i \in 1..Len(fields) :
                                Matches(ReAmountField, fields[i])}))

parseFormat3NoHeader(lines) ==
    Concat([k \in 1..Len(lines) |->
               Format3NoHeaderRow(parseCSVLine(lines[k]))])

\* the test parseFormat3 and parseCSV apply to a line to find the header
HasFormat3Words(line) ==
    LET lower == ToLowerCase(line)
    IN  /\ Includes(lower, "date")
        /\ Includes(lower, "description")
        /\ Includes(lower, "amount")

\* dateIndex, descIndex and amountIndex read off the header of parseFormat3
Format3Columns(headerFields) ==
    [dateIndex |-> FindIndexWhere(headerFields,
                       LAMBDA f : Trim(ToLowerCase(f)) = "date"),
     descIndex |-> FindIndexWhere(headerFields,
                       LAMBDA f : Includes(ToLowerCase(f), "description")),
     amountIndex |-> FindIndexWhere(headerFields,
                       LAMBDA f : /\ Includes(ToLowerCase(f), "amount")
                                  /\ ~Includes(ToLowerCase(f), "foreign"))]

IsSummaryRow(description) ==
    LET lower == ToLowerCase(description)
    IN  \/ Includes(lower, "summary")
        \/ Includes(lower, "last billed")
        \/ Includes(lower, "charges &")
        \/ Includes(lower, "payments &")

Format3Row(fields, c) ==
    IF Len(fields) < Max2(c.dateIndex, Max2(c.descIndex, c.amountIndex)) + 1
    THEN <<>>
    ELSE IF IsSummaryRow(FieldOr(fields, c.descIndex, "")) THEN <<>>
    ELSE IF parseDate(FieldOr(fields, c.dateIndex, "")) = <<>> THEN <<>>
    ELSE Format3Push(parseDate(FieldOr(fields, c.dateIndex, "")),
                     parseFloat(ReplaceAll(ReDollarComma,
                                    FieldOr(fields, c.amountIndex, ""), "")),
                     Trim(FieldOr(fields, c.descIndex, "")))

\* the lines after the header at index headerIndex (1-based)
Format3Rows(lines, headerIndex, c) ==
    Concat([k \in 1..(Len(lines) - headerIndex) |->
               Format3Row(parseCSVLine(lines[headerIndex + k]), c)])

Format3FromHeader(lines, headerIndex) ==
    Format3Rows(lines, headerIndex,
                Format3Columns(parseCSVLine(lines[headerIndex])))

parseFormat3(lines) ==
    LET headers == {i \in 1..Len(lines) : HasFormat3Words(lines[i])}
    IN  IF headers = {} THEN parseFormat3NoHeader(lines)
        ELSE Format3FromHeader(lines, SetMin(headers))

-----------------------------------------------------------------------------
(* csv-parser.ts: extractVendor and detectCategory *)

\* /^(pos |debit |credit |ach |check |wire |transfer )/i
ReVendorPrefix ==
    Cat(<<Bol, AltLitI(<<"pos ", "debit ", "credit ", "ach ", "check ",
                         "wire ", "transfer ">>)>>)

\* /\s+[a-z0-9]{6,12}\b/gi and /\s+[a-z0-9]{8,}\b/gi
ReVendorCode ==
    Cat(<<Plus(S1), Rep(ClsI(Lower \cup Digit), 6, 12), WordB>>)
ReVendorLongCode ==
    Cat(<<Plus(S1), Rep(ClsI(Lower \cup Digit), 8, Inf), WordB>>)

\* /\s{2,}|\/|\\|-/
ReVendorSplit == Alt(<<Rep(S1, 2, Inf), Lit("/"), Lit("\\"), Lit("-")>>)

\* one step of the clean-up at the head of extractVendor
VendorStep(k, s) ==
    CASE k = 1 -> ReplaceFirst(ReVendorPrefix, s)
      [] k = 2 -> ReplaceAll(D(4, Inf), s, "")
      [] k = 3 -> Trim(ReplaceAll(Cls({"#", "*"}), s, ""))
      [] k = 4 -> ReplaceAll(ReVendorCode, s, "")
      [] k = 5 -> ReplaceAll(ReVendorLongCode, s, "")

VendorSteps == 5

RECURSIVE VendorFrom(_)
VendorFrom(done) ==
    IF Len(done) > VendorSteps THEN done[Len(done)]
    ELSE VendorFrom(Append(done, VendorStep(Len(done), done[Len(done)])))

\* word.charAt(0).toUpperCase() + word.slice(1).toLowerCase()
Capitalize(word) ==
    IF word = "" THEN ""
    ELSE ToUpperCase(Ch(word, 1)) \o ToLowerCase(SubSeq(word, 2, Len(word)))

\* the words of the vendor capitalized, at most 30 characters of them
CapitalizeWords(vendor, words) ==
    LET joined == Join([k \in 1..Len(words) |-> Capitalize(words[k])], " ")
    IN  SubSeq(joined, 1, Min2(30, Len(joined)))

\* parts[0]?.trim() || description, then the capitalization
VendorOfParts(description, first) ==
    IF first = ""
    THEN CapitalizeWords(description, Split(Lit(" "), description))
    ELSE CapitalizeWords(first, Split(Lit(" "), first))

extractVendor(description) ==
    VendorOfParts(description,
        Trim(Split(ReVendorSplit, VendorFrom(<<description>>))[1]))

CATEGORY_KEYWORDS ==
    <<[category |-> "Food & Dining",
       keywords |-> {"restaurant", "cafe", "coffee", "food", "eat", "dining",
                     "uber eats", "doordash", "grubhub", "mcdonald",
                     "starbucks", "chipotle"}],
      [category |-> "Shopping",
       keywords |-> {"amazon", "walmart", "target", "ebay", "etsy", "shop",
                     "store", "market"}],
      [category |-> "Transportation",
       keywords |-> {"uber", "lyft", "gas", "fuel", "parking", "transit",
                     "metro", "bus"}],
      [category |-> "Entertainment",
       keywords |-> {"netflix", "spotify", "hulu", "disney", "movie",
                     "theater", "concert", "game"}],
      [category |-> "Utilities",
       keywords |-> {"electric", "water", "gas", "internet", "phone",
                     "mobile", "verizon", "att", "comcast"}],
      [category |-> "Health",
       keywords |-> {"pharmacy", "doctor", "hospital", "medical", "health",
                     "cvs", "walgreens"}],
      [category |-> "Travel",
       keywords |-> {"hotel", "airline", "flight", "airbnb", "booking",
                     "expedia"}]>>

\* the keyword fall-back of detectCategory
CategoryByKeyword(lower) ==
    LET hits == {k \in 1..Len(CATEGORY_KEYWORDS) :
                    \E keyword \in CATEGORY_KEYWORDS[k].keywords :
                        Includes(lower, keyword)}
    IN  IF hits = {} THEN "Other"
        ELSE CATEGORY_KEYWORDS[SetMin(hits)].category

\* detectCategory with the keywords looked at before the mappings
CategoryKeywordFirst(description, vendorCategoryMappings, vendor) ==
    IF CategoryByKeyword(ToLowerCase(description)) # "Other"
    THEN CategoryByKeyword(ToLowerCase(description))
    ELSE IF vendor \in DOMAIN vendorCategoryMappings
    THEN vendorCategoryMappings[vendor]
    ELSE "Other"

\* the mappings are a function from vendor names; no mappings is the empty
\* one, and a vendor mapped to "" counts as not mapped
CategoryOfVendor(description, vendorCategoryMappings, vendor) ==
    IF vendor \in DOMAIN vendorCategoryMappings
       /\ vendorCategoryMappings[vendor] # ""
    THEN vendorCategoryMappings[vendor]
    ELSE CategoryByKeyword(ToLowerCase(description))

detectCategory(description, vendorCategoryMappings) ==
    CategoryOfVendor(description, vendorCategoryMappings,
                     extractVendor(description))

-----------------------------------------------------------------------------
(* csv-parser.ts: parseCSV *)

\* dateIndex, descIndex and amountIndex of the fall-back, cols being the
\* lower-cased, trimmed columns of the header (none without a header)
FallbackColumns(cols) ==
    LET dateIndex == FindIndexWhere(cols, LAMBDA c : Includes(c, "date"))
        descIndex == FindIndexWhere(cols,
                        LAMBDA c : \/ Includes(c, "description")
                                   \/ Includes(c, "memo")
                                   \/ Includes(c, "name"))
        amountIndex == FindIndexWhere(cols,
                        LAMBDA c : \/ Includes(c, "amount")
                                   \/ Includes(c, "debit")
                                   \/ Includes(c, "credit"))
    IN  [dateIndex   |-> IF dateIndex = -1 THEN 0 ELSE dateIndex,
         descIndex   |-> IF descIndex = -1 THEN 1 ELSE descIndex,
         amountIndex |-> IF amountIndex = -1 THEN 2 ELSE amountIndex]

\* amountStr after the replace of /[$,()]/g and the trim, and after the
\* test for parentheses that follows it
FallbackAmountStr(amountStr) ==
    IF (Len(amountStr) > 0 /\ Ch(amountStr, 1) = "(")
       \/ (Len(amountStr) > 0 /\ Ch(amountStr, Len(amountStr)) = ")")
    THEN "-" \o ReplaceAll(Cls({"(", ")"}), amountStr, "")
    ELSE amountStr

\* the end of a row of the fall-back, from the amount test on
FallbackPush(dateStr, amount, date, cleanDescription) ==
    IF amount.nan \/ dateStr = "" THEN <<>>
    ELSE IF date = <<>> THEN <<>>
    ELSE IF Len(cleanDescription) < 2 THEN <<>>
    ELSE IF LooksLikeDate(cleanDescription) THEN <<>>
    ELSE ParsedTransaction(date, amount, cleanDescription,
                           IF amount.value < 0 THEN "debit" ELSE "credit")

FallbackRow(cols, c) ==
    LET dateStr == FieldOr(cols, c.dateIndex, "")
        inColumn == FieldOr(cols, c.descIndex, "")
        description ==
            IF Len(Trim(inColumn)) < 2 /\ Len(cols) > c.dateIndex + 1
            THEN FieldOr(cols, c.dateIndex + 1, "")
            ELSE inColumn
    IN  FallbackPush(dateStr,
            parseFloat(FallbackAmountStr(Trim(
                ReplaceAll(Cls({"$", ",", "(", ")"}),
                           FieldOr(cols, c.amountIndex, "0"), "")))),
            parseDate(dateStr),
            Trim(description))

\* the rows from line first on, under the columns c
FallbackRows(lines, first, c) ==
    Concat([k \in 1..(Len(lines) - first + 1) |->
               FallbackRow(parseCSVLine(lines[first + k - 1]), c)])

Trimmed(cols) == [k \in 1..Len(cols) |-> Trim(cols[k])]

LowerTrimmed(cols) == [k \in 1..Len(cols) |-> Trim(ToLowerCase(cols[k]))]

parseFallback(lines) ==
    LET header == ToLowerCase(lines[1])
        hasHeader == \/ Includes(header, "date")
                     \/ Includes(header, "amount")
                     \/ Includes(header, "description")
    IN  IF hasHeader
        THEN FallbackRows(lines, 2,
                 FallbackColumns(LowerTrimmed(parseCSVLine(lines[1]))))
        ELSE FallbackRows(lines, 1,
                 [dateIndex |-> 0, descIndex |-> 1, amountIndex |-> 2])

\* lines.some(...): a line with "date", "description" and "amount" and
\* without "posted date"
hasFormat3Header(lines) ==
    \E i \in 1..Len(lines) :
        /\ HasFormat3Words(lines[i])
        /\ ~Includes(ToLowerCase(lines[i]), "posted date")

\* the test of the first branch of the choice
IsFormat3(content, lines) ==
    \/ Includes(ToLowerCase(content), "american express")
    \/ Includes(ToLowerCase(content), "amex")
    \/ hasFormat3Header(lines)

\* the test of the second branch
IsFormat2(lines) ==
    \/ Includes(ToLowerCase(lines[1]), "posted date")
    \/ Includes(ToLowerCase(lines[1]), "payee")

\* the test of the third branch
IsFormat1(lines) ==
    /\ Includes(lines[1], ",")
    /\ Len(Split(Lit(","), lines[1])) >= 8

\* the choice of the parser with the test of parseFormat2 made first
ParseLinesFormat2First(content, lines) ==
    IF IsFormat2(lines) THEN parseFormat2(lines)
    ELSE IF IsFormat3(content, lines) THEN parseFormat3(lines)
    ELSE IF IsFormat1(lines) THEN parseFormat1(lines)
    ELSE parseFallback(lines)

\* the choice of the parser
ParseLines(content, lines) ==
    IF IsFormat3(content, lines) THEN parseFormat3(lines)
    ELSE IF IsFormat2(lines) THEN parseFormat2(lines)
    ELSE IF IsFormat1(lines) THEN parseFormat1(lines)
    ELSE parseFallback(lines)

\* the conversion to Transaction; crypto.randomUUID() gives each its own id,
\* here its place among the parsed transactions
ToTransactions(parsedTransactions, vendorCategoryMappings) ==
    [k \in 1..Len(parsedTransactions) |->
        [id |-> k,
         date |-> parsedTransactions[k].date,
         description |-> parsedTransactions[k].description,
         amount |-> parsedTransactions[k].amount,
         vendor |-> extractVendor(parsedTransactions[k].description),
         category |-> detectCategory(parsedTransactions[k].description,
                                     vendorCategoryMappings),
         isSubscription |-> FALSE,
         type |-> parsedTransactions[k].type]]

\* transactions.sort((a, b) => a.date - b.date), the comparator turned round
RECURSIVE SortOldestFirst(_)
SortOldestFirst(transactions) ==
    IF transactions = <<>> THEN <<>>
    ELSE LET last == transactions[Len(transactions)]
             rest == SortOldestFirst(
                         SubSeq(transactions, 1, Len(transactions) - 1))
             before == SelectSeq(rest, LAMBDA t : t.date <= last.date)
             after  == SelectSeq(rest, LAMBDA t : t.date > last.date)
         IN  before \o <<last>> \o after

\* transactions.sort((a, b) => b.date.getTime() - a.date.getTime()): stable,
\* newest first
RECURSIVE SortNewestFirst(_)
SortNewestFirst(transactions) ==
    IF transactions = <<>> THEN <<>>
    ELSE LET last == transactions[Len(transactions)]
             rest == SortNewestFirst(
                         SubSeq(transactions, 1, Len(transactions) - 1))
             before == SelectSeq(rest, LAMBDA t : t.date >= last.date)
             after  == SelectSeq(rest, LAMBDA t : t.date < last.date)
         IN  before \o <<last>> \o after

\* content.split("\n").map(line => line.trim()).filter(line => line.length > 0)
LinesOf(content) ==
    SelectSeq(Trimmed(Split(Lit("\n"), content)),
              LAMBDA line : Len(line) > 0)

TransactionsOfLines(content, lines, vendorCategoryMappings) ==
    IF Len(lines) = 0 THEN <<>>
    ELSE SortNewestFirst(ToTransactions(ParseLines(content, lines),
                                        vendorCategoryMappings))

parseCSV(content, vendorCategoryMappings) ==
    TransactionsOfLines(content, LinesOf(content), vendorCategoryMappings)

-----------------------------------------------------------------------------
(* parseCSV applied to texts of every layout *)

MaxRows == 2

\* per layout, the lines that open the text and the rows it may hold: a plain
\* charge, a payment, a row whose amount is 0, one whose description is a
\* date in ISO or slash notation, and one whose description is a spelled date
\* or a single character
CsvLayouts ==
    <<[head |-> <<>>,                                  \* parseFormat1
       rows |-> {"J,1,2025-01-05,2025-01-06,Coffee shop,CAD,4.50,",
                 "J,1,,2025-02-06,Refund,CAD,,20.00",
                 "J,1,2025-03-05,,Zero,CAD,0,",
                 "J,1,2025-03-06,,2025-03-07,CAD,5.00,",
                 "J,1,2025-03-08,,x,CAD,5.00,"}],
      [head |-> <<"Posted Date,Payee,Address,Amount">>, \* parseFormat2
       rows |-> {"01/05/2025,Coffee shop,,-4.50",
                 "02/06/2025,Salary,Main St,100.00",
                 "03/05/2025,Zero,,0",
                 "03/06/2025,3/7/25,,-5.00",
                 "03/08/2025,x,,-5.00"}],
      [head |-> <<"Date,Description,,Amount">>,         \* parseFormat3
       rows |-> {"5 Jan. 2025,Coffee shop,,$4.50",
                 "6 Feb 2025,Payment,,\"-$1,000.00\"",
                 "5 Mar 2025,Zero,,0.00",
                 "6 Mar 2025,2025-03-07,,5.00",
                 "8 Mar 2025,9 Mar 2025,,5.00"}],
      [head |-> <<"Amex statement">>,                   \* parseFormat3NoHeader
       rows |-> {"5 Jan. 2025,Coffee shop,$4.50",
                 "6 Feb 2025,Payment,-20.00",
                 "5 Mar 2025,Zero,0",
                 "6 Mar 2025,2025-03-07,5.00",
                 "8 Mar 2025,9 Mar 2025,5.00"}],
      [head |-> <<"Date,Memo,Amount">>,                 \* fall-back, header
       rows |-> {"2025-01-05,Coffee shop,-4.50",
                 "2025-02-06,Salary,100.00",
                 "2025-03-05,Zero,0",
                 "2025-03-06,2025-03-07,-5.00",
                 "2025-03-08,9 Mar 2025,-5.00"}],
      [head |-> <<>>,                                   \* fall-back, no header
       rows |-> {"2025-01-05,Coffee shop,-4.50",
                 "2025-02-06,Salary,100.00",
                 "2025-03-05,Tea",
                 "2025-03-06,3/7/25,-5.00",
                 "2025-03-08,9 Mar 2025,-5.00"}],
      \* the header of parseFormat2, a row that names the card issuer
      [head |-> <<"Posted Date,Payee,Address,Amount">>,
       rows |-> {"01/05/2025,Amex fee,,-4.50",
                 "02/06/2025,Salary,Main St,100.00"}],
      \* the header of parseFormat2 with 8 columns
      [head |-> <<"Posted Date,Payee,Address,Amount,A,B,C,D">>,
       rows |-> {"01/05/2025,Coffee shop,2025-01-06,-4.50,Tea room,CAD,7.00,"}],
      \* 8 columns and no header, a row that names the card issuer
      [head |-> <<>>,
       rows |-> {"J,1,2025-01-05,2025-01-06,American Express,CAD,4.50,"}],
      \* fall-back, amounts in parentheses
      [head |-> <<>>,
       rows |-> {"2025-01-07,Bank fee,(12.50)",
                 "2025-01-08,Phone bill,($12.50)"}]>>

\* texts without a line that is not blank
BlankTexts == {"", "\n", " \n  \n "}

CsvTexts ==
    UNION {{Join(CsvLayouts[f].head \o rows, "\n") :
                rows \in ListsUpTo(CsvLayouts[f].rows, MaxRows)} :
           f \in 1..Len(CsvLayouts)}
    \cup BlankTexts

\* the vendor-category mappings handed to parseCSV: none, or one
VendorMappings == {<<>>, [vendor \in {"Coffee Shop"} |-> "Treats"]}

InitParse ==
    /\ csv \in CsvTexts
    /\ txs = <<>>
    /\ prev = <<>>
    /\ runs = 0
    /\ files = <<>>
    /\ dateIn = <<>>
    /\ dateOut = <<>>
    /\ vendorMappings = <<>>
    /\ minVariants = 2
    /\ mergedGroups = {}
    /\ PageIdle

Parse(vendorCategoryMappings) ==
    /\ runs = 0
    /\ txs' = parseCSV(csv, vendorCategoryMappings)
    /\ vendorMappings' = vendorCategoryMappings
    /\ runs' = 1
    /\ UNCHANGED <<prev, files, csv, dateIn, dateOut,
                 minVariants, mergedGroups, pageVars>>

NextParse == \E mappings \in VendorMappings : Parse(mappings)

SpecParse == InitParse /\ [][NextParse]_vars

\* C5: every transaction parseCSV returns has an amount above 0, whichever
\* parser read the text
ParsedAmountsPositive ==
    runs >= 1 => \A i \in 1..Len(txs) : txs[i].amount > 0

\* C6: every transaction parseCSV returns has a description of 2 characters
\* or more after trimming that parseDate does not accept, whichever parser
\* read the text
ParsedDescriptionsAreNotDates ==
    runs >= 1 =>
        \A i \in 1..Len(txs) :
            /\ Len(Trim(txs[i].description)) >= 2
            /\ parseDate(txs[i].description) = <<>>

\* C7: parseCSV returns its transactions newest first, none of them flagged
ParsedNewestFirst ==
    runs >= 1 =>
        /\ \A i \in 1..(Len(txs) - 1) : txs[i].date >= txs[i + 1].date
        /\ \A i \in 1..Len(txs) : ~txs[i].isSubscription

\* a text whose rows came oldest first: the sort moved a later row up
SortMovedARowUp ==
    /\ runs = 1
    /\ \E i, j \in 1..Len(txs) :
        i < j /\ txs[i].id > txs[j].id /\ txs[i].date > txs[j].date

-----------------------------------------------------------------------------
(* parseDate on year, month and day that are no date of the calendar *)

\* the year-month-day triples of the model that the calendar does not hold:
\* a day past the end of its month, or month 13
InvalidDates ==
    {c \in [y : {2024, 2025}, m : 1..13, d : {29, 30, 31, 32}] :
        c.m = 13 \/ CivilFromDays(DaysFromCivil(c.y, c.m, c.d)) # c}

\* the notations in which such a triple can be written: YYYY-MM-DD,
\* MM/DD/YYYY and, where the month has a name, D Mon. YYYY
InvalidNotations(c, padded, point) ==
    IF c.m <= 12 THEN Notations(c.y, c.m, c.d, padded, point)
    ELSE <<Pad(c.y, 4) \o "-" \o Pad(c.m, 2) \o "-" \o Pad(c.d, 2),
           Pad(c.m, 2) \o "/" \o Pad(c.d, 2) \o "/" \o Pad(c.y, 4)>>

\* a text of one row per notation, in the layout of the fall-back
RowsDated(forms) ==
    Join([k \in 1..Len(forms) |-> forms[k] \o ",Coffee shop,-4.50"], "\n")

InitInvalidDate ==
    /\ dateIn \in {[date |-> c, forms |-> InvalidNotations(c, p, q)] :
                      c \in InvalidDates, p \in BOOLEAN, q \in BOOLEAN}
    /\ dateOut = <<>>
    /\ vendorMappings = <<>>
    /\ minVariants = 2
    /\ mergedGroups = {}
    /\ PageIdle
    /\ txs = <<>>
    /\ prev = <<>>
    /\ runs = 0
    /\ files = <<>>
    /\ csv = ""

\* parseDate on each notation, and parseCSV on the rows that carry them
ParseInvalidDates ==
    /\ runs = 0
    /\ dateOut' = [k \in 1..Len(dateIn.forms) |-> parseDate(dateIn.forms[k])]
    /\ csv' = RowsDated(dateIn.forms)
    /\ txs' = parseCSV(RowsDated(dateIn.forms), <<>>)
    /\ runs' = 1
    /\ UNCHANGED <<prev, files, dateIn, vendorMappings,
                 minVariants, mergedGroups, pageVars>>

NextInvalidDate == ParseInvalidDates

SpecInvalidDate == InitInvalidDate /\ [][NextInvalidDate]_vars

\* C11: parseDate returns null for year, month and day that form no date of
\* the calendar, in every notation, and parseCSV drops the rows that carry
\* them
InvalidDatesRejected ==
    runs >= 1 =>
        /\ \A k \in 1..Len(dateOut) : dateOut[k] = <<>>
        /\ txs = <<>>

-----------------------------------------------------------------------------
(* parseCSV on blank texts and on rows the parsers do not accept *)

\* the same parsed record, whatever id, vendor and category it was given
SameRecord(a, b) ==
    /\ a.date = b.date
    /\ a.amount = b.amount
    /\ a.description = b.description
    /\ a.type = b.type

\* every transaction of the list alone is in the list result
AllKeptIn(alone, result) ==
    \A k \in 1..Len(alone) :
        \E i \in 1..Len(result) : SameRecord(result[i], alone[k])

\* the first line and the line k of the text, as a text
FirstLineAnd(lines, k) == Join(<<lines[1], lines[k]>>, "\n")

\* each line, parsed with the first line alone, gives transactions that the
\* result of the whole text holds, where the rest of the text does not send
\* the text to parseFormat3 (or away from it)
EachLineKept(content, lines, result) ==
    \A k \in 1..Len(lines) :
        IsFormat3(content, lines)
            = IsFormat3(FirstLineAnd(lines, k), <<lines[1], lines[k]>>)
        => AllKeptIn(parseCSV(FirstLineAnd(lines, k), <<>>), result)

\* C12: parseCSV returns a list of transactions for every text, the empty
\* list for a text without a line that is not blank, and a row it accepts
\* next to the first line alone it accepts in the whole text too, whichever
\* rows of the text it drops (the text and the two lines being read by the
\* same parser)
ParseNeverFails ==
    runs >= 1 =>
        /\ DOMAIN txs = 1..Len(txs)
        /\ \A i \in 1..Len(txs) : txs[i].type \in {"debit", "credit"}
        /\ csv \in BlankTexts => txs = <<>>
        /\ EachLineKept(csv, LinesOf(csv), txs)

\* a row that parseFormat2 drops came before a row it accepts
RejectedRowBeforeAccepted ==
    /\ runs = 1
    /\ csv = Join(<<"Posted Date,Payee,Address,Amount",
                    "03/08/2025,x,,-5.00",
                    "01/05/2025,Coffee shop,,-4.50">>, "\n")
    /\ Len(txs) = 1
    /\ txs[1].description = "Coffee shop"

\* a text of blank lines only was parsed
BlankTextParsed ==
    /\ runs = 1
    /\ csv = " \n  \n "
    /\ txs = <<>>

-----------------------------------------------------------------------------
(* detectSubscriptions on transactions that carry flags already: the list  *)
(* in txs as given, the list in prev with isSubscription false and         *)
(* subscriptionFrequency undefined ("none")                                *)

MaxFlaggedTx == 2

\* one merchant charged a month and a year later; flags as the editor of
\* the transaction list can leave them
FlaggedUniverse ==
    {[date |-> d, description |-> "Netflix.com", amount |-> 1000,
      type |-> ty, isSubscription |-> f.isSubscription,
      subscriptionFrequency |-> f.subscriptionFrequency] :
        d \in {Date(2025, 1, 15), Date(2025, 2, 15), Date(2026, 1, 15)},
        ty \in {"debit", "credit"},
        f \in {[isSubscription |-> FALSE, subscriptionFrequency |-> "none"],
               [isSubscription |-> TRUE, subscriptionFrequency |-> "monthly"],
               [isSubscription |-> TRUE, subscriptionFrequency |-> "annual"]}}

\* the transactions with their ids, as Transaction of types.ts
WithFrequency(fields) ==
    [i \in 1..Len(fields) |->
        [id |-> i, date |-> fields[i].date,
         description |-> fields[i].description, amount |-> fields[i].amount,
         type |-> fields[i].type, isSubscription |-> fields[i].isSubscription,
         subscriptionFrequency |-> fields[i].subscriptionFrequency]]

\* the same transactions, never flagged
Unflagged(list) ==
    [i \in 1..Len(list) |->
        [list[i] EXCEPT !.isSubscription = FALSE,
                        !.subscriptionFrequency = "none"]]

InitFlagged ==
    /\ \E l \in ListsUpTo(FlaggedUniverse, MaxFlaggedTx) :
        /\ txs = WithFrequency(l)
        /\ prev = Unflagged(WithFrequency(l))
    /\ runs = 0
    /\ files = <<>>
    /\ csv = ""
    /\ dateIn = <<>>
    /\ dateOut = <<>>
    /\ vendorMappings = <<>>
    /\ minVariants = 2
    /\ mergedGroups = {}
    /\ PageIdle

\* detectSubscriptions on either list
DetectBoth ==
    /\ runs = 0
    /\ txs' = detectSubscriptions(txs)
    /\ prev' = detectSubscriptions(prev)
    /\ runs' = 1
    /\ UNCHANGED <<files, csv, dateIn, dateOut, vendorMappings,
                 minVariants, mergedGroups, pageVars>>

NextFlagged == DetectBoth

SpecFlagged == InitFlagged /\ [][NextFlagged]_vars

\* C13: detectSubscriptions computes isSubscription and subscriptionFrequency
\* anew: two lists that differ only in these two fields give the same result
FlagsRecomputed ==
    runs >= 1 => txs = prev

\* the debits of the list grouped with the transaction t
GroupOf(list, t) ==
    SelectSeq(list, LAMBDA u : u.type = "debit"
                               /\ normalizeKey(u) = normalizeKey(t))

\* the frequencies the band of the intervals of the group allows: annual for
\* two charges 350 to 380 days apart, monthly where no two charges are that
\* far apart
FrequenciesOf(group) ==
    IF Len(group) = 2 /\ DaysApart(group[1], group[2]) \in 350..380
    THEN {"annual"}
    ELSE IF \A i, j \in 1..Len(group) :
                DaysApart(group[i], group[j]) \notin 350..380
    THEN {"monthly"}
    ELSE {"monthly", "annual"}

\* C14: every transaction detectSubscriptions flags has a
\* subscriptionFrequency, annual where the interval of its group lies in the
\* band of 350 to 380 days and monthly otherwise
FlaggedHaveFrequency ==
    runs >= 1 =>
        \A i \in 1..Len(prev) :
            prev[i].isSubscription =>
                prev[i].subscriptionFrequency \in FrequenciesOf(GroupOf(prev, prev[i]))

-----------------------------------------------------------------------------
(* The category parseCSV gives a transaction *)

\* a keyword of the k-th category of the table lies in the description,
\* whatever the case of its letters
KeywordOf(k, lower) ==
    \E keyword \in CATEGORY_KEYWORDS[k].keywords : Includes(lower, keyword)

\* category is the first category of the table with a keyword in the
\* description, or "Other" where there is none
FirstKeywordCategory(category, lower) ==
    \/ \E k \in 1..Len(CATEGORY_KEYWORDS) :
        /\ KeywordOf(k, lower)
        /\ \A j \in 1..(k - 1) : ~KeywordOf(j, lower)
        /\ category = CATEGORY_KEYWORDS[k].category
    \/ /\ \A k \in 1..Len(CATEGORY_KEYWORDS) : ~KeywordOf(k, lower)
       /\ category = "Other"

\* category is what the mappings give the vendor, or what the keywords give
\* the description where the mappings do not hold the vendor
CategoryAsMapped(category, description, vendor, mappings) ==
    IF vendor \in DOMAIN mappings THEN category = mappings[vendor]
    ELSE FirstKeywordCategory(category, ToLowerCase(description))

-----------------------------------------------------------------------------
(* The vendor variant merger: normalizeVendorForGrouping, findVendorVariants *)
(* and autoMergeVendors as spec.md 4.6 and VENDOR_MERGING.md describe them   *)
(* (scripts/detect-vendor-variants.ts imports them from lib/csv-parser, but  *)
(* the listings of that file do not hold them).                              *)

\* # followed by 1 to 6 digits
ReStoreNumber == Cat(<<Lit("#"), D(1, 6)>>)

\* province and region codes of 2 or 3 letters, and the single letters of
\* the compass
RegionCodes ==
    <<"bc", "ab", "sk", "mb", "on", "qc", "nb", "ns", "pe", "nl", "yt", "nt",
      "nu", "ca", "us", "usa", "n", "s", "e", "w">>

\* such a code at the end of the name
ReTrailingCode == Cat(<<Plus(S1), AltLitI(RegionCodes), Star(S1), Eol>>)

\* normalizeVendorForGrouping that leaves the store numbers in
normalizeVendorKeepNumbers(vendor) ==
    Trim(ReplaceAll(ReSpaces,
                    ReplaceFirst(ReTrailingCode, Trim(ToLowerCase(vendor))),
                    " "))

\* lower case, store numbers stripped, the trailing code stripped, white
\* space collapsed
normalizeVendorForGrouping(vendor) ==
    Trim(ReplaceAll(ReSpaces,
                    ReplaceFirst(ReTrailingCode,
                        Trim(ReplaceAll(ReStoreNumber, ToLowerCase(vendor),
                                        ""))),
                    " "))

\* the vendor strings the model's transactions carry
MergeVendors ==
    {"Tom Sushi #50929 BC", "Tom Sushi #50788 BC", "Tom Sushi",
     "Safeway #4948"}

\* normalizeVendorForGrouping, tabulated once for the model's vendors
VendorKeyOf == [v \in MergeVendors |-> normalizeVendorForGrouping(v)]

VendorsOf(transactions) ==
    {transactions[i].vendor : i \in 1..Len(transactions)}

\* the spellings among the transactions that normalize to the key
VariantsOf(transactions, key) ==
    {v \in VendorsOf(transactions) : VendorKeyOf[v] = key}

\* the groups of 2 spellings or more
findVendorVariants(transactions) ==
    {g \in {[normalizedName |-> VendorKeyOf[v],
             variants |-> VariantsOf(transactions, VendorKeyOf[v]),
             transactionCount |->
                Cardinality({i \in 1..Len(transactions) :
                    VendorKeyOf[transactions[i].vendor] = VendorKeyOf[v]})] :
            v \in VendorsOf(transactions)} :
        Cardinality(g.variants) >= 2}

\* how many transactions carry the spelling
CountOf(transactions, v) ==
    Cardinality({i \in 1..Len(transactions) : transactions[i].vendor = v})

\* the shortest among the strings
Shortest(strings) == {v \in strings : \A w \in strings : Len(v) <= Len(w)}

\* the spellings that can be the canonical one: the most frequent, the
\* shortest of these; what decides between those left is not said
Canonicals(transactions, variants) ==
    Shortest({v \in variants :
                \A w \in variants :
                    CountOf(transactions, v) >= CountOf(transactions, w)})

\* the ways to give each group of n spellings or more its canonical spelling
CanonicalChoices(transactions, groups) ==
    {c \in [{g.normalizedName : g \in groups} -> MergeVendors] :
        \A g \in groups :
            c[g.normalizedName] \in Canonicals(transactions, g.variants)}

\* mergeVendorNames that rewrites no transaction after the first
mergeFirstVendorOnly(transactions, canonicalOf) ==
    [i \in 1..Len(transactions) |->
        IF i = 1 /\ VendorKeyOf[transactions[i].vendor] \in DOMAIN canonicalOf
        THEN [transactions[i] EXCEPT
                !.vendor = canonicalOf[VendorKeyOf[transactions[i].vendor]]]
        ELSE transactions[i]]

\* every transaction of a merged group gets the canonical spelling
mergeVendorNames(transactions, canonicalOf) ==
    [i \in 1..Len(transactions) |->
        IF VendorKeyOf[transactions[i].vendor] \in DOMAIN canonicalOf
        THEN [transactions[i] EXCEPT
                !.vendor = canonicalOf[VendorKeyOf[transactions[i].vendor]]]
        ELSE transactions[i]]

\* the merges performed
MergedGroupsOf(transactions, canonicalOf) ==
    {[canonical |-> canonicalOf[key],
      variants |-> VariantsOf(transactions, key)] :
        key \in DOMAIN canonicalOf}

MaxMergeTx == 3

\* transactions whose description is the spelling their vendor starts as
WithVendors(vendors) ==
    [i \in 1..Len(vendors) |->
        [id |-> i, description |-> vendors[i], vendor |-> vendors[i]]]

InitMerge ==
    /\ txs \in {WithVendors(l) : l \in ListsUpTo(MergeVendors, MaxMergeTx)}
    /\ minVariants \in {2, 3}
    /\ mergedGroups = {}
    /\ PageIdle
    /\ prev = <<>>
    /\ runs = 0
    /\ files = <<>>
    /\ csv = ""
    /\ dateIn = <<>>
    /\ dateOut = <<>>
    /\ vendorMappings = <<>>

\* autoMergeVendors(transactions, minVariants) with the canonical spellings c
AutoMergeWith(c) ==
    /\ txs' = mergeVendorNames(txs, c)
    /\ mergedGroups' = MergedGroupsOf(txs, c)
    /\ prev' = txs
    /\ runs' = runs + 1
    /\ UNCHANGED <<files, csv, dateIn, dateOut, vendorMappings, minVariants,
                 pageVars>>

autoMergeVendors ==
    /\ runs < MaxRuns
    /\ \E c \in CanonicalChoices(txs,
                    {g \in findVendorVariants(txs) :
                        Cardinality(g.variants) >= minVariants}) :
            AutoMergeWith(c)

NextMerge == autoMergeVendors

SpecMerge == InitMerge /\ [][NextMerge]_vars

TomSushiSpellings == {"Tom Sushi #50929 BC", "Tom Sushi #50788 BC"}

\* C16: "Tom Sushi #50929 BC" and "Tom Sushi #50788 BC" normalize to
\* "tom sushi", and after autoMergeVendors with minVariants = 2 every
\* transaction that carried either spelling has one and the same vendor
TomSushiMerged ==
    /\ \A v \in TomSushiSpellings : VendorKeyOf[v] = "tom sushi"
    /\ (runs >= 1 /\ minVariants = 2) =>
        \A i, j \in 1..Len(txs) :
            (/\ txs[i].description \in TomSushiSpellings
             /\ txs[j].description \in TomSushiSpellings)
            => txs[i].vendor = txs[j].vendor

\* both spellings were among the transactions merged
BothSpellingsMerged ==
    /\ runs = 1
    /\ minVariants = 2
    /\ TomSushiSpellings \subseteq VendorsOf(prev)
    /\ Cardinality(VendorsOf(txs)) = 1

\* C17: autoMergeVendors applied to its own result, with the same
\* minVariants, changes no vendor and reports no merged group; it changes
\* the vendor of a transaction only and neither adds nor removes one
MergeIdempotent ==
    /\ runs >= 1 =>
        /\ Len(txs) = Len(prev)
        /\ \A i \in 1..Len(txs) :
            txs[i] = [prev[i] EXCEPT !.vendor = txs[i].vendor]
    /\ runs >= 2 => (txs = prev /\ mergedGroups = {})

\* the second run came after a run that merged two spellings
SecondMergeAfterMerge ==
    /\ runs = 2
    /\ \E i, j \in 1..Len(prev) :
        /\ prev[i].description # prev[j].description
        /\ prev[i].vendor = prev[j].vendor

-----------------------------------------------------------------------------
(* The direction and the amount the parsers store *)

\* the amount a field reads as, signed, once "$", "," and parentheses are
\* taken out of it
SignedAmount(field) ==
    parseFloat(ReplaceAll(Cls({"$", ",", "(", ")"}), field, ""))

\* the fields hold the date of the transaction, and an amount of which the
\* transaction stores the absolute value, with the direction the parser
\* gives the sign of that amount: debit above 0 for the statement parser,
\* debit below 0 for the others
RowGives(fields, t, statement) ==
    /\ \E f \in 1..Len(fields) : parseDate(fields[f]) = <<t.date>>
    /\ \E f \in 1..Len(fields) :
        /\ ~SignedAmount(fields[f]).nan
        /\ t.amount = Abs(SignedAmount(fields[f]).value)
        /\ t.type = IF statement
                    THEN (IF SignedAmount(fields[f]).value > 0
                          THEN "debit" ELSE "credit")
                    ELSE (IF SignedAmount(fields[f]).value < 0
                          THEN "debit" ELSE "credit")

\* every transaction of the result comes from a line in that way, a line
\* without its amount column being read by the fall-back as the amount "0"
SignsAsParsed(lines, result, statement) ==
    \A i \in 1..Len(result) :
        \E k \in 1..Len(lines) :
            RowGives(IF statement THEN parseCSVLine(lines[k])
                     ELSE Append(parseCSVLine(lines[k]), "0"),
                     result[i], statement)

\* the text is read by parseFormat1
ReadByFormat1(content, lines) ==
    ~IsFormat3(content, lines) /\ ~IsFormat2(lines) /\ IsFormat1(lines)

ParenthesesAreNegative ==
    runs >= 1 =>
        \A i \in 1..Len(txs) :
            txs[i].description \in {"Bank fee", "Phone bill"}
            => (txs[i].type = "debit" /\ txs[i].amount = 1250)

-----------------------------------------------------------------------------
(* The parser parseCSV chooses *)

\* the result is what the parser gives, converted and sorted
ResultOf(result, parsedTransactions, mappings) ==
    result = SortNewestFirst(ToTransactions(parsedTransactions, mappings))

\* the result is that of the first parser, in the order parseFormat3,
\* parseFormat2, parseFormat1, whose test the text passes, and that of the
\* fall-back where it passes none
FirstRuleDecides(content, lines, result, mappings) ==
    /\ IsFormat3(content, lines)
        => ResultOf(result, parseFormat3(lines), mappings)
    /\ (~IsFormat3(content, lines) /\ IsFormat2(lines))
        => ResultOf(result, parseFormat2(lines), mappings)
    /\ (~IsFormat3(content, lines) /\ ~IsFormat2(lines) /\ IsFormat1(lines))
        => ResultOf(result, parseFormat1(lines), mappings)
    /\ (~IsFormat3(content, lines) /\ ~IsFormat2(lines) /\ ~IsFormat1(lines))
        => ResultOf(result, parseFallback(lines), mappings)

\* C20: for a text with a line that is not blank parseCSV uses one parser,
\* the first in the order statement (parseFormat3), payee and address
\* (parseFormat2), 8 columns (parseFormat1) whose test holds, and the
\* fall-back when no test holds
DispatchByPriority ==
    (runs >= 1 /\ LinesOf(csv) # <<>>) =>
        FirstRuleDecides(csv, LinesOf(csv), txs, vendorMappings)

\* a text that passes the test of parseFormat3 and that of parseFormat2 was
\* read as parseFormat3 reads it, not as parseFormat2 does
StatementBeforePayee ==
    /\ runs = 1
    /\ csv = Join(<<"Posted Date,Payee,Address,Amount",
                    "02/06/2025,Salary,Main St,100.00",
                    "01/05/2025,Amex fee,,-4.50">>, "\n")
    /\ IsFormat3(csv, LinesOf(csv)) /\ IsFormat2(LinesOf(csv))
    /\ Len(txs) = 2
    /\ txs[1].description = "Salary Main St" /\ txs[1].type = "debit"
    /\ ~ResultOf(txs, parseFormat2(LinesOf(csv)), vendorMappings)

-----------------------------------------------------------------------------
(* The interval bands of a group of two *)

\* one merchant charging one amount on the 15th of a month, 31, 59, 365 and
\* 396 days after 2025-01-15, and on the day after it
IntervalDates ==
    {Date(2025, 1, 15), Date(2025, 1, 16), Date(2025, 2, 15),
     Date(2025, 3, 15), Date(2026, 1, 15), Date(2026, 2, 15)}

IntervalUniverse ==
    {[date |-> d, description |-> "Netflix.com", amount |-> 1000,
      type |-> ty, isSubscription |-> FALSE] :
        d \in IntervalDates, ty \in {"debit", "credit"}}

InitInterval ==
    /\ txs \in {WithIds(l) : l \in ListsUpTo(IntervalUniverse, MaxTx)}
    /\ prev = <<>>
    /\ runs = 0
    /\ files = <<>>
    /\ csv = ""
    /\ dateIn = <<>>
    /\ dateOut = <<>>
    /\ vendorMappings = <<>>
    /\ minVariants = 2
    /\ mergedGroups = {}
    /\ PageIdle

NextInterval == Detect

SpecInterval == InitInterval /\ [][NextInterval]_vars

\* the positions of the debits grouped with the debit at position i
GroupAt(list, i) ==
    {k \in 1..Len(list) : /\ list[k].type = "debit"
                          /\ normalizeKey(list[k]) = normalizeKey(list[i])}

\* C21: when a group holds exactly two debits and detectSubscriptions flags
\* one of them, their dates lie 20 to 40 or 350 to 380 days apart: a group of
\* two at any other distance is not flagged, its days of the month being the
\* same or not
TwoFlaggedWithinBands ==
    runs >= 1 =>
        \A i, j \in 1..Len(txs) :
            (/\ i # j
             /\ GroupAt(txs, i) = {i, j}
             /\ txs[i].isSubscription \/ txs[j].isSubscription)
                => \/ DaysApart(txs[i], txs[j]) \in 20..40
                   \/ DaysApart(txs[i], txs[j]) \in 350..380

\* the detector has run on a list with a group of two debits a year apart,
\* which it flagged, next to a credit of the same merchant 59 days after the
\* first
AnnualPairFlagged ==
    /\ runs = 1
    /\ \E i, j, k \in 1..Len(txs) :
        /\ GroupAt(txs, i) = {i, j}
        /\ DaysApart(txs[i], txs[j]) = 365
        /\ txs[i].isSubscription /\ txs[j].isSubscription
        /\ txs[k].type = "credit" /\ DaysApart(txs[i], txs[k]) = 59

-----------------------------------------------------------------------------
(* The variance of the amounts of a group *)

\* amounts of one group (2.00, 2.44 and 2.45 all round to 2): 2.00 and 2.44
\* lie 19.8% of their average apart, 2.00 and 2.45 lie 20.2% apart
VarianceAmounts == {200, 244, 245}

VarianceUniverse ==
    {[date |-> d, description |-> "Netflix.com", amount |-> a,
      type |-> "debit", isSubscription |-> FALSE] :
        d \in {Date(2025, 1, 15), Date(2025, 2, 15), Date(2025, 3, 15)},
        a \in VarianceAmounts}

InitVariance ==
    /\ txs \in {WithIds(l) : l \in ListsUpTo(VarianceUniverse, MaxTx)}
    /\ prev = <<>>
    /\ runs = 0
    /\ files = <<>>
    /\ csv = ""
    /\ dateIn = <<>>
    /\ dateOut = <<>>
    /\ vendorMappings = <<>>
    /\ minVariants = 2
    /\ mergedGroups = {}
    /\ PageIdle

NextVariance == Detect

SpecVariance == InitVariance /\ [][NextVariance]_vars

\* (max - min) / average <= 20% for the amounts at the positions of g
WithinFifth(list, g) ==
    LET amounts == {list[k].amount : k \in g}
        RECURSIVE Sum(_)
        Sum(S) == IF S = {} THEN 0
                  ELSE LET k == CHOOSE x \in S : TRUE
                       IN  list[k].amount + Sum(S \ {k})
    IN  5 * Cardinality(g) * (SetMax(amounts) - SetMin(amounts)) <= Sum(g)

\* the gates other than the variance: the group's dates are not all one
\* date and its days of the month are aligned
OtherGates(list, g) ==
    /\ \E j, k \in g : list[j].date # list[k].date
    /\ isSameDayOfMonth(SortByDate(SelectSeq(list, LAMBDA t :
           \E k \in g : list[k] = t)))

\* C22: a group of exactly two debits is flagged only if its amounts lie
\* within 20% of their average of each other, and a group of three or more
\* is flagged exactly when the other gates let it through, whatever its
\* amounts
VarianceGate ==
    runs >= 1 =>
        \A i \in 1..Len(txs) :
            /\ (Cardinality(GroupAt(txs, i)) = 2 /\ txs[i].isSubscription)
                   => WithinFifth(txs, GroupAt(txs, i))
            /\ Cardinality(GroupAt(txs, i)) >= 3
                   => (txs[i].isSubscription <=> OtherGates(txs, GroupAt(txs, i)))

\* the detector has flagged a group of three whose amounts lie more than
\* 20% apart, in a list where the first two alone would be discarded
WideGroupOfThreeFlagged ==
    /\ runs = 1
    /\ Len(txs) = 3
    /\ Cardinality(GroupAt(txs, 1)) = 3
    /\ ~WithinFifth(txs, {1, 2})
    /\ DaysApart(txs[1], txs[2]) = 31
    /\ \A i \in 1..3 : txs[i].isSubscription

-----------------------------------------------------------------------------
(* The days of the month of a group *)

\* one merchant charging one amount around the middle of three months and
\* across the end of a month
DayOfMonthDates ==
    {Date(2025, 1, 14), Date(2025, 1, 15), Date(2025, 2, 14),
     Date(2025, 2, 16), Date(2025, 3, 15), Date(2025, 3, 16),
     Date(2025, 1, 31), Date(2025, 3, 1)}

DayOfMonthUniverse ==
    {[date |-> d, description |-> "Netflix.com", amount |-> 1000,
      type |-> "debit", isSubscription |-> FALSE] : d \in DayOfMonthDates}

InitDayOfMonth ==
    /\ txs \in {WithIds(l) : l \in ListsUpTo(DayOfMonthUniverse, MaxTx)}
    /\ prev = <<>>
    /\ runs = 0
    /\ files = <<>>
    /\ csv = ""
    /\ dateIn = <<>>
    /\ dateOut = <<>>
    /\ vendorMappings = <<>>
    /\ minVariants = 2
    /\ mergedGroups = {}
    /\ PageIdle

NextDayOfMonth == Detect

SpecDayOfMonth == InitDayOfMonth /\ [][NextDayOfMonth]_vars

\* the day of the month most members of g fall on and, of several such days,
\* the one of the earliest member
ModeDay(list, g) ==
    LET Count(day) == Cardinality({k \in g : GetDate(list[k].date) = day})
        most  == {k \in g : \A j \in g :
                     Count(GetDate(list[k].date)) >= Count(GetDate(list[j].date))}
        first == CHOOSE k \in most : \A j \in most : list[k].date <= list[j].date
    IN  GetDate(list[first].date)

-----------------------------------------------------------------------------
(* Groups of one debit and groups of one date *)

\* C24: a transaction flagged by detectSubscriptions shares its grouping key
\* with at least one other debit, and the debits of its group fall on at
\* least two calendar dates: a debit alone under its key and a group charged
\* on a single date are never flagged
FlaggedGroupRepeats ==
    runs >= 1 =>
        \A i \in 1..Len(txs) : txs[i].isSubscription =>
            /\ Cardinality(GroupAt(txs, i)) >= 2
            /\ Cardinality({txs[k].date : k \in GroupAt(txs, i)}) >= 2

\* the detector has flagged one group and left unflagged a group of two
\* debits charged on one date
SameDatePairBesideFlaggedGroup ==
    /\ runs = 1
    /\ \E i, j, k \in 1..Len(txs) :
        /\ i # j
        /\ GroupAt(txs, i) = {i, j}
        /\ txs[i].date = txs[j].date
        /\ ~txs[i].isSubscription /\ ~txs[j].isSubscription
        /\ txs[k].isSubscription

-----------------------------------------------------------------------------
(* parseCSVLine on every short line of letters, commas and quotes *)

MaxLineLen == 5

LineChars == {"a", ",", "\""}

\* the texts of at most n characters
RECURSIVE LinesUpTo(_)
LinesUpTo(n) ==
    IF n = 0 THEN {""}
    ELSE LinesUpTo(n - 1) \cup
            {s \o c : s \in LinesUpTo(n - 1), c \in LineChars}

InitLine ==
    /\ lineIn \in LinesUpTo(MaxLineLen)
    /\ lineOut = <<>>
    /\ dateFilter = <<>>
    /\ stored = <<>>
    /\ pending = {}
    /\ edit = <<>>
    /\ argument = <<>>
    /\ txs = <<>>
    /\ prev = <<>>
    /\ runs = 0
    /\ ParserIdle

ParseLine ==
    /\ runs = 0
    /\ lineOut' = parseCSVLine(lineIn)
    /\ runs' = 1
    /\ UNCHANGED <<txs, prev, lineIn, dateFilter, stored, pending, edit,
                 argument, parserVars>>

NextLine == ParseLine

SpecLine == InitLine /\ [][NextLine]_vars

\* how many quote characters stand before position pos
QuotesBefore(s, pos) ==
    Cardinality({q \in 1..(pos - 1) : CharAt(s, q) = "\""})

\* a comma outside the quoted spans: an even number of quotes stands before
OutsideComma(s, pos) ==
    CharAt(s, pos) = "," /\ QuotesBefore(s, pos) % 2 = 0

\* what the character at pos leaves in its field: itself, nothing for a
\* quote, and one quote for a quote inside a span that another quote follows
Kept(s, pos) ==
    IF CharAt(s, pos) # "\"" THEN CharAt(s, pos)
    ELSE IF QuotesBefore(s, pos) % 2 = 1 /\ CharAt(s, pos + 1) = "\""
    THEN "\"" ELSE ""

RECURSIVE KeptBetween(_, _, _)
KeptBetween(s, from, to) ==
    IF from > to THEN ""
    ELSE Kept(s, from) \o KeptBetween(s, from + 1, to)

\* the fields the outside commas cut the line into, from position from on
RECURSIVE FieldsFrom(_, _)
FieldsFrom(s, from) ==
    LET commas == {pos \in from..Len(s) : OutsideComma(s, pos)}
    IN  IF commas = {} THEN <<KeptBetween(s, from, Len(s))>>
        ELSE <<KeptBetween(s, from, SetMin(commas) - 1)>>
                \o FieldsFrom(s, SetMin(commas) + 1)

\* C25: parseCSVLine returns one field more than the line has commas
\* outside quoted spans, in the order of the line; a field holds the
\* characters between two such commas, empty or not, commas inside a quoted
\* span included, without the quotes that open and close a span and with
\* one quote for a doubled quote inside a span, which does not end the span
FieldsCutAtOutsideCommas ==
    runs >= 1 =>
        /\ Len(lineOut) =
              Cardinality({pos \in 1..Len(lineIn) : OutsideComma(lineIn, pos)}) + 1
        /\ lineOut = FieldsFrom(lineIn, 1)

\* a line of a quoted span that holds a comma and a doubled quote, read as
\* one field of a comma and a quote
QuotedCommaAndDoubledQuote ==
    /\ runs = 1
    /\ lineIn = "\",\"\"\""
    /\ lineOut = <<",\"">>

-----------------------------------------------------------------------------
(* parseDate on dates written day first *)

\* calendar dates whose day cannot be read as a month
DayFirstDates ==
    {c \in [y : {2024, 2025}, m : 1..12, d : {13, 25, 29, 31}] :
        CivilFromDays(DaysFromCivil(c.y, c.m, c.d)) = c}

\* DD/MM/YYYY and D/M/YYYY of the date y-m-d, and its YYYY-MM-DD
DayFirstNotations(c) ==
    <<Pad(c.d, 2) \o "/" \o Pad(c.m, 2) \o "/" \o Pad(c.y, 4),
      Pad(c.d, 1) \o "/" \o Pad(c.m, 1) \o "/" \o Pad(c.y, 4),
      Pad(c.y, 4) \o "-" \o Pad(c.m, 2) \o "-" \o Pad(c.d, 2)>>

InitDayFirst ==
    /\ dateIn \in {[date |-> c, forms |-> DayFirstNotations(c)] :
                      c \in DayFirstDates}
    /\ dateOut = <<>>
    /\ txs = <<>>
    /\ prev = <<>>
    /\ runs = 0
    /\ files = <<>>
    /\ csv = ""
    /\ vendorMappings = <<>>
    /\ minVariants = 2
    /\ mergedGroups = {}
    /\ PageIdle

NextDayFirst == ParseDates

SpecDayFirst == InitDayFirst /\ [][NextDayFirst]_vars

\* C26: a slash date whose first number is greater than 12 is read day
\* first, the month-first reading being no date: "25/12/2024" parses to
\* 25 December 2024, the date its ISO form parses to
DayFirstWhenMonthFirstFails ==
    runs >= 1 =>
        /\ dateOut[3] = <<Date(dateIn.date.y, dateIn.date.m, dateIn.date.d)>>
        /\ dateOut[1] = dateOut[3]
        /\ dateOut[2] = dateOut[3]

-----------------------------------------------------------------------------
(* The dashboard page: Dashboard of app/page.tsx, the date filter of the   *)
(* header, the lists and panels that edit the transactions, and the server *)
(* that stores them                                                        *)

MaxEdits == 2

\* the statements a user uploads: two charges of one merchant a month
\* apart, a charge of another merchant, or all three
PageTexts ==
    {"2025-02-15,Netflix.com,-10.00\n2025-01-15,Netflix.com,-10.00",
     "2025-02-10,Tom Sushi,-25.00",
     "2025-02-15,Netflix.com,-10.00\n2025-02-10,Tom Sushi,-25.00\n"
        \o "2025-01-15,Netflix.com,-10.00"}

PageVendors == {"Netflix.com", "Tom Sushi"}

\* two of the categories /api/categories returns
PageCategories == {"Other", "Shopping"}

\* the ids handleFiles gives the rows of these statements
PageIds == 1..3

\* the days the calendars of the header are clicked on
PageFilterDates == {Date(2025, 2, 1)}

\* the vendor-category mappings as the object the server stores, for a
\* table that holds "" where a vendor has no mapping
MappingsOf(own) ==
    [v \in {w \in PageVendors : own[w] # ""} |-> own[v]]

\* the mappings as such a table
TableOf(mappings) ==
    [v \in PageVendors |-> IF v \in DOMAIN mappings THEN mappings[v] ELSE ""]

\* the transactions as Transaction of types.ts, subscriptionFrequency
\* undefined ("none")
WithoutFrequency(transactions) ==
    [i \in 1..Len(transactions) |->
        transactions[i] @@ [subscriptionFrequency |-> "none"]]

\* what handleFiles hands to onDataParsed for each statement under each
\* state of the mappings, computed once
PageData ==
    [text \in PageTexts |->
        [own \in [PageVendors -> PageCategories \cup {""}] |->
            WithoutFrequency(handleFiles(<<parseCSV(text, MappingsOf(own))>>))]]

NoFilter == [isNull |-> TRUE, from |-> <<>>, to |-> <<>>]

filterTransactionsByDate(transactions, filter) ==
    IF filter.isNull \/ (filter.from = <<>> /\ filter.to = <<>>)
    THEN transactions
    ELSE SelectSeq(transactions, LAMBDA t :
            /\ filter.from # <<>> => ~(t.date < filter.from[1])
            /\ filter.to # <<>> => ~(t.date > filter.to[1]))

\* what the panels and their lists get as transactions and allTransactions
filteredTransactions == filterTransactionsByDate(txs, dateFilter)

\* the transactions a list shows with their controls
Shown == SelectSeq(filteredTransactions, LAMBDA t : t.type = "debit")

ShownIds == {Shown[k].id : k \in 1..Len(Shown)}

ShownOf(transactionId) ==
    Shown[CHOOSE k \in 1..Len(Shown) : Shown[k].id = transactionId]

InitPage ==
    /\ txs = <<>>
    /\ prev = <<>>
    /\ runs = 0
    /\ dateFilter = NoFilter
    /\ stored = <<>>
    /\ pending = {}
    /\ edit = [op |-> "none", ids |-> {}]
    /\ argument = <<>>
    /\ lineIn = ""
    /\ lineOut = <<>>
    /\ ParserIdle

\* saveTransactions(transactions): the request is sent and not awaited
saveTransactions(transactions, part) ==
    [edit |-> runs + 1, part |-> part, body |-> transactions]

\* setTransactions(updated) and saveTransactions(updated) of a handler
SetAndSave(updated, op, ids) ==
    /\ runs < MaxEdits
    /\ txs' = updated
    /\ pending' = pending \cup {saveTransactions(updated, 1)}
    /\ prev' = txs
    /\ edit' = [op |-> op, ids |-> ids]
    /\ runs' = runs + 1
    /\ UNCHANGED <<dateFilter, stored, lineIn, lineOut, argument, files, csv,
                 dateIn, dateOut, minVariants, mergedGroups>>

\* FileUpload hands the parsed statement to handleDataParsed
HandleDataParsed(text) ==
    /\ SetAndSave(PageData[text][TableOf(vendorMappings)], "upload", {})
    /\ UNCHANGED vendorMappings

\* the dates the calendars of the header offer: inside the range of the
\* transactions, From not after To and To not before From
handleFromDateChange(date) ==
    /\ txs # <<>>
    /\ \E i, j \in 1..Len(txs) : txs[i].date <= date /\ date <= txs[j].date
    /\ dateFilter.to # <<>> => date <= dateFilter.to[1]
    /\ dateFilter' = [isNull |-> FALSE, from |-> <<date>>, to |-> dateFilter.to]

handleToDateChange(date) ==
    /\ txs # <<>>
    /\ \E i, j \in 1..Len(txs) : txs[i].date <= date /\ date <= txs[j].date
    /\ dateFilter.from # <<>> => date >= dateFilter.from[1]
    /\ dateFilter' = [isNull |-> FALSE, from |-> dateFilter.from, to |-> <<date>>]

handleClearFilters ==
    /\ ~dateFilter.isNull /\ (dateFilter.from # <<>> \/ dateFilter.to # <<>>)
    /\ dateFilter' = NoFilter

\* Header calls onDateFilterChange, which is setDateFilter
SetDateFilter ==
    /\ \/ \E date \in PageFilterDates : handleFromDateChange(date)
       \/ \E date \in PageFilterDates : handleToDateChange(date)
       \/ handleClearFilters
    /\ UNCHANGED <<txs, prev, runs, stored, pending, edit, lineIn, lineOut,
                 argument, parserVars>>

\* EditableTransactionList.handleDelete
handleDelete(allTransactions, transactionId) ==
    SelectSeq(allTransactions, LAMBDA t : t.id # transactionId)

HandleDelete(transactionId) ==
    /\ transactionId \in ShownIds
    /\ SetAndSave(handleDelete(filteredTransactions, transactionId),
                  "delete", {transactionId})
    /\ UNCHANGED vendorMappings

\* EditableTransactionList.handleCategoryChange: the new list, handed to
\* onUpdateTransactions once the mapping is posted
handleCategoryChange(allTransactions, transaction, newCategory) ==
    [i \in 1..Len(allTransactions) |->
        IF allTransactions[i].vendor = transaction.vendor
        THEN [allTransactions[i] EXCEPT !.category = newCategory]
        ELSE allTransactions[i]]

\* POST of /api/vendor-categories: mappings[vendor] = category
SaveVendorCategory(mappings, vendor, category) ==
    [v \in (DOMAIN mappings) \cup {vendor} |->
        IF v = vendor THEN category ELSE mappings[v]]

HandleCategoryChange(transactionId, newCategory) ==
    /\ transactionId \in ShownIds
    /\ SetAndSave(handleCategoryChange(filteredTransactions,
                                       ShownOf(transactionId), newCategory),
                  "category", {transactionId})
    /\ vendorMappings' =
          SaveVendorCategory(vendorMappings, ShownOf(transactionId).vendor,
                             newCategory)

\* EditableTransactionList.handleSubscriptionChange writing the frequency
\* and leaving isSubscription as it was
handleSubscriptionChangeFrequencyOnly(allTransactions, transaction, isSubscription, frequency) ==
    [i \in 1..Len(allTransactions) |->
        IF allTransactions[i].id = transaction.id
        THEN [allTransactions[i] EXCEPT
                !.subscriptionFrequency =
                    IF isSubscription THEN frequency ELSE "none"]
        ELSE allTransactions[i]]

\* EditableTransactionList.handleSubscriptionChange
handleSubscriptionChange(allTransactions, transaction, isSubscription, frequency) ==
    [i \in 1..Len(allTransactions) |->
        IF allTransactions[i].id = transaction.id
        THEN [allTransactions[i] EXCEPT
                !.isSubscription = isSubscription,
                !.subscriptionFrequency =
                    IF isSubscription THEN frequency ELSE "none"]
        ELSE allTransactions[i]]

\* the choices of the list: Monthly or Annual on any transaction, Remove,
\* by the menu or the button, on a subscription
HandleSubscriptionChange(transactionId, isSubscription, frequency) ==
    /\ transactionId \in ShownIds
    /\ isSubscription => frequency \in {"monthly", "annual"}
    /\ ~isSubscription =>
          (ShownOf(transactionId).isSubscription /\ frequency = "none")
    /\ SetAndSave(handleSubscriptionChange(filteredTransactions,
                                           ShownOf(transactionId),
                                           isSubscription, frequency),
                  "subscription", {transactionId})
    /\ UNCHANGED vendorMappings

\* Dashboard.handleToggleSubscription: the new list
handleToggleSubscription(transactions, transactionId, isSubscription) ==
    [i \in 1..Len(transactions) |->
        IF transactions[i].id = transactionId
        THEN [transactions[i] EXCEPT !.isSubscription = isSubscription]
        ELSE transactions[i]]

\* SubscriptionsPanel.handleAddSubscription for the debits of a vendor that
\* are no subscriptions, newest first: every call of onToggleSubscription
\* starts from the transactions of the same render and sends its own save,
\* and the list of the last call is the one that stays
HandleAddSubscription(vendor) ==
    LET vendorTransactions ==
            SortNewestFirst(SelectSeq(Shown, LAMBDA t :
                ~t.isSubscription /\ t.vendor = vendor))
        n == Len(vendorTransactions)
    IN  /\ runs < MaxEdits
        /\ n >= 1
        /\ txs' = handleToggleSubscription(txs, vendorTransactions[n].id, TRUE)
        /\ pending' = pending \cup
              {saveTransactions(
                   handleToggleSubscription(txs, vendorTransactions[k].id,
                                            TRUE), k) : k \in 1..n}
        /\ prev' = txs
        /\ edit' = [op |-> "toggle",
                    ids |-> {vendorTransactions[k].id : k \in 1..n}]
        /\ runs' = runs + 1
        /\ UNCHANGED <<dateFilter, stored, lineIn, lineOut, argument,
                       parserVars>>

\* SubscriptionsPanel.handleRemoveSubscription for the subscriptions of a
\* vendor
HandleRemoveSubscription(vendor) ==
    LET transactionIds ==
            {Shown[k].id : k \in {j \in 1..Len(Shown) :
                Shown[j].isSubscription /\ Shown[j].vendor = vendor}}
    IN  /\ transactionIds # {}
        /\ SetAndSave(SelectSeq(filteredTransactions,
                                LAMBDA t : t.id \notin transactionIds),
                      "remove", transactionIds)
        /\ UNCHANGED vendorMappings

\* CategoryManager.handleDeleteCategory
HandleDeleteCategory(categoryToDelete) ==
    /\ categoryToDelete # "Other"
    /\ SetAndSave([i \in 1..Len(filteredTransactions) |->
                      IF filteredTransactions[i].category = categoryToDelete
                      THEN [filteredTransactions[i] EXCEPT !.category = "Other"]
                      ELSE filteredTransactions[i]],
                  "categories", {})
    /\ UNCHANGED vendorMappings

\* POST of /api/transactions for one of the requests on their way: the
\* requests are independent and the server takes them in any order
POST ==
    /\ \E request \in pending :
        /\ stored' = request.body
        /\ pending' = pending \ {request}
    /\ UNCHANGED <<txs, prev, runs, dateFilter, edit, lineIn, lineOut,
                 argument, parserVars>>

NextPage ==
    \/ \E text \in PageTexts : HandleDataParsed(text)
    \/ SetDateFilter
    \/ \E id \in PageIds : HandleDelete(id)
    \/ \E id \in PageIds, c \in PageCategories : HandleCategoryChange(id, c)
    \/ \E id \in PageIds, s \in BOOLEAN,
          f \in {"none", "monthly", "annual"} :
          HandleSubscriptionChange(id, s, f)
    \/ \E vendor \in PageVendors : HandleAddSubscription(vendor)
    \/ \E vendor \in PageVendors : HandleRemoveSubscription(vendor)
    \/ \E c \in PageCategories : HandleDeleteCategory(c)
    \/ POST

SpecPage == InitPage /\ [][NextPage]_vars


Ids(transactions) == {transactions[i].id : i \in 1..Len(transactions)}

StoredIsLastEdit ==
    (runs >= 1 /\ pending = {}) => stored = txs


FrequencyNeedsFlag(transactions) ==
    \A i \in 1..Len(transactions) :
        transactions[i].subscriptionFrequency # "none"
            => transactions[i].isSubscription

\* C30: in the transactions of the page, in those the server stores and in
\* those of every save request, a transaction has a subscriptionFrequency
\* only when its isSubscription is TRUE
FrequencyOnlyOnSubscriptions ==
    /\ FrequencyNeedsFlag(txs)
    /\ FrequencyNeedsFlag(stored)
    /\ \A request \in pending : FrequencyNeedsFlag(request.body)

\* a list has given a transaction that detection did not flag a frequency
FrequencyChosenInList ==
    /\ edit.op = "subscription"
    /\ \E i \in 1..Len(txs) :
        /\ txs[i].id \in edit.ids
        /\ txs[i].subscriptionFrequency = "annual"
        /\ \E j \in 1..Len(prev) :
            prev[j].id = txs[i].id /\ ~prev[j].isSubscription

-----------------------------------------------------------------------------
(* detectSubscriptions applied once to a list of whole transactions, ids,  *)
(* vendors and categories included, in any order of dates                  *)

MaxFrameTx == 3

FrameDates == {Date(2025, 2, 15), Date(2025, 1, 15)}

FrameCharges ==
    {[description |-> "Netflix.com", amount |-> 1000,
      vendor |-> "Netflix.com", category |-> "Entertainment"],
     [description |-> "Tom Sushi", amount |-> 2500,
      vendor |-> "Tom Sushi", category |-> "Other"]}

FrameUniverse ==
    {[date |-> d, description |-> c.description, amount |-> c.amount,
      vendor |-> c.vendor, category |-> c.category, type |-> ty,
      isSubscription |-> f] :
        d \in FrameDates, c \in FrameCharges,
        ty \in {"debit", "credit"}, f \in BOOLEAN}

\* the fields as transactions whose ids do not follow their positions
WithOwnIds(fields) ==
    [i \in 1..Len(fields) |->
        fields[i] @@ [id |-> 10 * (Len(fields) + 1 - i)]]

\* the array handed to detectSubscriptions once it has returned: filter and
\* map (1536-1543, 1551) build arrays of their own, detectRecurringPayments
\* pushes the elements it is given into the arrays of its groups, and sort
\* (1225) is called on those
ArgumentAfterDetect(transactions) == transactions

InitFrame ==
    /\ txs \in {WithOwnIds(l) : l \in ListsUpTo(FrameUniverse, MaxFrameTx)}
    /\ prev = <<>>
    /\ runs = 0
    /\ PageIdle
    /\ ParserIdle

\* const withSubscriptions = detectSubscriptions(unique)
DetectFrame ==
    /\ runs = 0
    /\ txs' = detectSubscriptions(txs)
    /\ argument' = ArgumentAfterDetect(txs)
    /\ prev' = txs
    /\ runs' = 1
    /\ UNCHANGED <<lineIn, lineOut, dateFilter, stored, pending, edit,
                 parserVars>>

NextFrame == DetectFrame

SpecFrame == InitFrame /\ [][NextFrame]_vars

\* C29: what detectSubscriptions returns has the length of the list it was
\* given and, position by position, the id, date, description, amount,
\* vendor, category and type of that list; the list it was given is as it
\* was before the call
DetectChangesOnlyFlag ==
    runs = 1 =>
        /\ Len(txs) = Len(prev)
        /\ \A i \in 1..Len(prev) :
            /\ txs[i].id = prev[i].id
            /\ txs[i].date = prev[i].date
            /\ txs[i].description = prev[i].description
            /\ txs[i].amount = prev[i].amount
            /\ txs[i].vendor = prev[i].vendor
            /\ txs[i].category = prev[i].category
            /\ txs[i].type = prev[i].type
        /\ argument = prev

\* a list given newest first, with a credit between the two charges that
\* detection flags
UnsortedListFlagged ==
    /\ runs = 1
    /\ Len(prev) = 3
    /\ prev[1].date > prev[3].date
    /\ prev[2].type = "credit"
    /\ ~prev[1].isSubscription /\ txs[1].isSubscription
    /\ ~prev[3].isSubscription /\ txs[3].isSubscription
    /\ prev[2].isSubscription /\ ~txs[2].isSubscription

====
